---- MODULE Spec2Model ----
(***************************************************************************)
(* A model of xdrgen (bi-zone/rust-xdr): the XDR specification IR, the     *)
(* symbol table, the declaration / pack / unpack emitters, the generate,   *)
(* generate_pretty and compile drivers and the command-line entry point.   *)
(*                                                                         *)
(* Emitted Rust is modelled as structured fragments (records), and the     *)
(* emitted pack / unpack routines are given their run-time meaning by a    *)
(* small interpreter over a wire of 32-bit words.                          *)
(***************************************************************************)
EXTENDS Integers, Sequences, FiniteSets, TLC

(***************************************************************************)
(* Bounds of the model.                                                    *)
(***************************************************************************)
\* The width, in bits, that stands for the 32 bits of an i32.  Values of
\* the specification language (i64) are kept unbounded; `as i32` wraps them
\* into WordBits bits, exactly as the casts in the emitted code do.
WordBits == 3
\* The longest definition list handed to the drivers.
MaxDefs == 3
\* The longest wire (in words) handed to an emitted unpack routine.
MaxWire == 2

Modulus == 2 ^ WordBits
Half == 2 ^ (WordBits - 1)
I32 == (0 - Half) .. (Half - 1)

\* `v as i32`: two's complement truncation.
AsI32(v) ==
    LET m == v % Modulus
    IN  IF m >= Half THEN m - Modulus ELSE m

(***************************************************************************)
(* Option and Result.                                                      *)
(***************************************************************************)
None == [k |-> "None"]
Some(x) == [k |-> "Some", v |-> x]
IsSome(o) == o.k = "Some"
IsNone(o) == o.k = "None"

Ok(x) == [k |-> "Ok", v |-> x]
Err(e) == [k |-> "Err", e |-> e]
IsOk(r) == r.k = "Ok"
IsErr(r) == r.k = "Err"
\* A panic of the generator (an unwrap on an error, a panic! call).
Panic(msg) == [k |-> "Panic", msg |-> msg]
IsPanic(r) == r.k = "Panic"

(***************************************************************************)
(* Generic sequence helpers.                                               *)
(***************************************************************************)
Range(s) == {s[i] : i \in DOMAIN s}

\* All sequences over S of length at most n, without repeated elements.
RECURSIVE DistinctSeqs(_, _)
DistinctSeqs(S, n) ==
    IF n = 0 THEN {<<>>}
    ELSE LET shorter == DistinctSeqs(S, n - 1)
         IN  shorter \cup
             {Append(s, x) : <<s, x>> \in {p \in shorter \X S : p[2] \notin Range(p[1])}}

\* All sequences over S of length at most n.
RECURSIVE SeqsUpTo(_, _)
SeqsUpTo(S, n) ==
    IF n = 0 THEN {<<>>}
    ELSE LET shorter == SeqsUpTo(S, n - 1)
         IN  shorter \cup {Append(s, x) : <<s, x>> \in shorter \X S}

(***************************************************************************)
(* Names.  A name is a string; the symbol table's BTreeMap<String, _>      *)
(* iterates in the byte order of its keys, which NameBytes and StrLess     *)
(* reproduce.                                                              *)
(***************************************************************************)
NameBytes(n) ==
    CASE n = "A" -> <<65>>
      [] n = "Ab" -> <<65, 98>>
      [] n = "B" -> <<66>>
      [] n = "C" -> <<67>>
      [] n = "D" -> <<68>>
      [] n = "E" -> <<69>>
      [] n = "F" -> <<70>>
      [] n = "FALSE" -> <<70, 65, 76, 83, 69>>
      [] n = "H" -> <<72>>
      [] n = "P" -> <<80>>
      [] n = "S" -> <<83>>
      [] n = "T" -> <<84>>
      [] n = "TRUE" -> <<84, 82, 85, 69>>
      [] n = "U" -> <<85>>
      [] n = "V" -> <<86>>
      [] n = "VERSION_" -> <<86, 69, 82, 83, 73, 79, 78, 95>>
      [] n = "VERSION_1" -> <<86, 69, 82, 83, 73, 79, 78, 95, 49>>
      [] n = "VERSION_2" -> <<86, 69, 82, 83, 73, 79, 78, 95, 50>>
      [] n = "W" -> <<87>>
      [] n = "X" -> <<88>>
      [] n = "Z" -> <<90>>
      [] n = "a" -> <<97>>
      [] n = "b" -> <<98>>
      [] n = "type" -> <<116, 121, 112, 101>>

\* Ord for String: lexicographic on bytes, a proper prefix first.
RECURSIVE BytesLess(_, _)
BytesLess(a, b) ==
    IF b = <<>> THEN FALSE
    ELSE IF a = <<>> THEN TRUE
    ELSE IF Head(a) < Head(b) THEN TRUE
    ELSE IF Head(a) > Head(b) THEN FALSE
    ELSE BytesLess(Tail(a), Tail(b))

StrLess(a, b) == BytesLess(NameBytes(a), NameBytes(b))

\* str::starts_with.
StartsWith(n, prefix) ==
    LET a == NameBytes(n)
        b == NameBytes(prefix)
    IN  Len(b) <= Len(a) /\ SubSeq(a, 1, Len(b)) = b

\* The keys from the greatest down.
RECURSIVE DescendingKeysOf(_)
DescendingKeysOf(S) ==
    IF S = {} THEN <<>>
    ELSE LET greatest == CHOOSE x \in S : \A y \in S \ {x} : StrLess(y, x)
         IN  <<greatest>> \o DescendingKeysOf(S \ {greatest})

\* The keys of a map in BTreeMap iteration order.
RECURSIVE SortedKeysOf(_)
SortedKeysOf(S) ==
    IF S = {} THEN <<>>
    ELSE LET least == CHOOSE x \in S : \A y \in S \ {x} : StrLess(x, y)
         IN  <<least>> \o SortedKeysOf(S \ {least})

SortedKeys(m) == SortedKeysOf(DOMAIN m)

\* The reserved words quote_ident escapes (the ones the model's names meet).
KEYWORDS == {"type", "enum", "struct", "match", "self", "Self", "const", "for", "use"}

quote_ident(id) == IF id \in KEYWORDS THEN id \o "_" ELSE id

(***************************************************************************)
(* The IR: Value, Type, Decl, EnumDefn, UnionCase, Defn.                   *)
(***************************************************************************)
VConst(c) == [k |-> "Const", v |-> c]
VIdent(id) == [k |-> "Ident", id |-> id]

Prim(kind) == [k |-> kind]
TInt == Prim("Int")
TUInt == Prim("UInt")
THyper == Prim("Hyper")
TUHyper == Prim("UHyper")
TFloat == Prim("Float")
TBool == Prim("Bool")
TOpaque == Prim("Opaque")
TString == Prim("String")
TEnum(defs) == [k |-> "Enum", defs |-> defs]
TStruct(decls) == [k |-> "Struct", decls |-> decls]
TUnion(sel, cases, defl) == [k |-> "Union", sel |-> sel, cases |-> cases, defl |-> defl]
TOption(ty) == [k |-> "Option", ty |-> ty]
TArray(ty, len) == [k |-> "Array", ty |-> ty, len |-> len]
TFlex(ty, max) == [k |-> "Flex", ty |-> ty, max |-> max]
TIdent(name) == [k |-> "Ident", name |-> name, derives |-> None]
ident_with_derives(id, derives) == [k |-> "Ident", name |-> id, derives |-> Some(derives)]

PrimKinds == {"Int", "UInt", "Hyper", "UHyper", "Float", "Double", "Quadruple", "Bool"}

Void == [k |-> "Void"]
Named(name, ty) == [k |-> "Named", name |-> name, ty |-> ty]

EnumDefn(name, val) == [name |-> name, val |-> val]
UnionCase(val, decl) == [val |-> val, decl |-> decl]

DTypespec(name, ty) == [k |-> "Typespec", name |-> name, ty |-> ty]
DTypesyn(name, ty) == [k |-> "Typesyn", name |-> name, ty |-> ty]
DConst(name, val) == [k |-> "Const", name |-> name, val |-> val]

(***************************************************************************)
(* The symbol table.                                                       *)
(***************************************************************************)
MapInsert(m, key, v) == [n \in DOMAIN m \cup {key} |-> IF n = key THEN v ELSE m[n]]

EmptyMap == [n \in {} |-> None]

SymtabNew == [consts |-> EmptyMap, typespecs |-> EmptyMap, typesyns |-> EmptyMap]

getconst(symtab, name) ==
    IF name \in DOMAIN symtab.consts THEN Some(symtab.consts[name]) ELSE None

value(symtab, val) ==
    IF val.k = "Const" THEN Some(val.v)
    ELSE LET c == getconst(symtab, val.id)
         IN  IF IsSome(c) THEN Some(c.v.val) ELSE None

typespec(symtab, name) ==
    IF name \in DOMAIN symtab.typespecs THEN Some(symtab.typespecs[name].ty)
    ELSE IF name \in DOMAIN symtab.typesyns THEN Some(symtab.typesyns[name].ty)
    ELSE None

defconst(symtab, name, val, scope, header) ==
    [symtab EXCEPT !.consts = MapInsert(@, name, [val |-> val, scope |-> scope, header |-> header])]

deftype(symtab, name, ty, header) ==
    [symtab EXCEPT !.typespecs = MapInsert(@, name, [ty |-> ty, header |-> header])]

deftypesyn(symtab, name, ty, header) ==
    [symtab EXCEPT !.typesyns = MapInsert(@, name, [ty |-> ty, header |-> header])]

\* The loop of update_enum_consts over the members from index i on; prev is
\* the value of the last registered member.
RECURSIVE enum_consts_from(_, _, _, _, _, _)
enum_consts_from(symtab, scope, edefn, i, prev, header) ==
    IF i > Len(edefn) THEN symtab
    ELSE LET d == edefn[i]
             v == IF IsNone(d.val) THEN Some(prev + 1) ELSE value(symtab, d.val.v)
         IN  IF IsNone(v)
             THEN enum_consts_from(symtab, scope, edefn, i + 1, prev, header)
             ELSE enum_consts_from(defconst(symtab, d.name, v.v, Some(scope), header),
                                   scope, edefn, i + 1, v.v, header)

update_enum_consts(symtab, scope, ty, header) ==
    IF ty.k = "Enum" THEN enum_consts_from(symtab, scope, ty.defs, 1, 0 - 1, header)
    ELSE symtab

update_defn(symtab, defn, header) ==
    CASE defn.k = "Typespec" ->
            update_enum_consts(deftype(symtab, defn.name, defn.ty, header),
                               defn.name, defn.ty, header)
      [] defn.k = "Const" -> defconst(symtab, defn.name, defn.val, None, header)
      [] defn.k = "Typesyn" -> deftypesyn(symtab, defn.name, defn.ty, header)

RECURSIVE update_consts(_, _, _)
update_consts(symtab, defns, header) ==
    IF defns = <<>> THEN symtab
    ELSE update_consts(update_defn(symtab, Head(defns), header), Tail(defns), header)

(***************************************************************************)
(* Type predicates and the derivation analyzer.                            *)
(***************************************************************************)
\* An is_prim that leaves Bool out of the primitives.
is_prim_numeric(ty, symtab) == ty.k \in PrimKinds \ {"Bool"}

RECURSIVE is_prim(_, _)
is_prim(ty, symtab) ==
    IF ty.k \in PrimKinds THEN TRUE
    ELSE IF ty.k = "Ident"
    THEN LET t == typespec(symtab, ty.name)
         IN  IF IsNone(t) THEN FALSE ELSE is_prim(t.v, symtab)
    ELSE FALSE

RECURSIVE is_boxed(_, _)
is_boxed(ty, symtab) ==
    IF is_prim(ty, symtab) THEN FALSE
    ELSE IF ty.k \in {"Array", "Flex", "Option"} THEN FALSE
    ELSE IF ty.k = "Ident"
    THEN LET t == typespec(symtab, ty.name)
         IN  IF IsSome(t) THEN is_boxed(t.v, symtab) ELSE TRUE
    ELSE TRUE

\* is_prim and is_boxed as the calls nest: each identifier followed is one
\* more frame, and None stands for a call that never returns.  A chain of
\* names longer than the table cannot end.
ChainLimit(symtab) == Cardinality(DOMAIN symtab.typespecs \cup DOMAIN symtab.typesyns)

RECURSIVE is_prim_nested(_, _, _)
is_prim_nested(ty, symtab, frames) ==
    IF ty.k \in PrimKinds THEN Some(TRUE)
    ELSE IF ty.k = "Ident"
    THEN LET t == typespec(symtab, ty.name)
         IN  IF IsNone(t) THEN Some(FALSE)
             ELSE IF frames = 0 THEN None
             ELSE is_prim_nested(t.v, symtab, frames - 1)
    ELSE Some(FALSE)

RECURSIVE is_boxed_nested(_, _, _)
is_boxed_nested(ty, symtab, frames) ==
    LET prim == is_prim_nested(ty, symtab, ChainLimit(symtab))
    IN  IF IsNone(prim) THEN None
        ELSE IF prim.v THEN Some(FALSE)
        ELSE IF ty.k \in {"Array", "Flex", "Option"} THEN Some(FALSE)
        ELSE IF ty.k = "Ident"
        THEN LET t == typespec(symtab, ty.name)
             IN  IF IsNone(t) THEN Some(TRUE)
                 ELSE IF frames = 0 THEN None
                 ELSE is_boxed_nested(t.v, symtab, frames - 1)
        ELSE Some(TRUE)

DerivesAll == {"COPY", "CLONE", "DEBUG", "EQ", "PARTIALEQ"}

\* A limit one element further.
LongerArrayLen == 32 + 1

\* Fixed arrays longer than this get no #[derive].
MaxDeriveArrayLen == 32

\* A memo entry that grants a type in progress the full set.
InProgressFull == {"COPY", "CLONE", "DEBUG", "EQ", "PARTIALEQ"}

\* The memo entry of a type whose derive set is being computed: no derives
\* unless some are proved.
InProgress == {}

\* A Decl::derivable that grants every field the full set.
decls_derivable_all(decls, symtab, memo, acc) == [set |-> DerivesAll, memo |-> memo]

\* derivable returns the set and the memo it leaves behind.
RECURSIVE derivable(_, _, _)
RECURSIVE decls_derivable(_, _, _, _)
decls_derivable(decls, symtab, memo, acc) ==
    IF decls = <<>> THEN [set |-> acc, memo |-> memo]
    ELSE LET d == Head(decls)
             r == IF d.k = "Void" THEN [set |-> DerivesAll, memo |-> memo]
                  ELSE derivable(d.ty, symtab, memo)
         IN  decls_derivable(Tail(decls), symtab, r.memo, acc \cap r.set)

derivable(ty, symtab, memo) ==
    IF ty \in DOMAIN memo THEN [set |-> memo[ty], memo |-> memo]
    ELSE LET m1 == MapInsert(memo, ty, InProgress)
             r == CASE ty.k = "Array" ->
                         LET inner == IF ty.ty.k \in {"Opaque", "String"}
                                      THEN [set |-> DerivesAll, memo |-> m1]
                                      ELSE derivable(ty.ty, symtab, m1)
                             len == value(symtab, ty.len)
                         IN  IF IsSome(len) /\ len.v <= MaxDeriveArrayLen THEN inner
                             ELSE [set |-> {}, memo |-> inner.memo]
                    [] ty.k \in {"Flex", "Option"} ->
                         LET inner == derivable(ty.ty, symtab, m1)
                         IN  [set |-> inner.set \ {"COPY"}, memo |-> inner.memo]
                    [] ty.k = "Enum" -> [set |-> DerivesAll, memo |-> m1]
                    [] ty.k = "Struct" -> decls_derivable(ty.decls, symtab, m1, DerivesAll)
                    [] ty.k = "Union" ->
                         LET cs == decls_derivable([i \in DOMAIN ty.cases |-> ty.cases[i].decl],
                                                   symtab, m1, DerivesAll)
                         IN  IF IsNone(ty.defl) THEN cs
                             ELSE decls_derivable(<<ty.defl.v>>, symtab, cs.memo, cs.set)
                    [] ty.k = "Ident" /\ IsSome(ty.derives) -> [set |-> ty.derives.v, memo |-> m1]
                    [] ty.k = "Ident" /\ IsNone(ty.derives) ->
                         LET t == typespec(symtab, ty.name)
                         IN  IF IsNone(t) THEN [set |-> {}, memo |-> m1]
                             ELSE derivable(t.v, symtab, m1)
                    [] ty.k \in {"Float", "Double"} ->
                         [set |-> {"PARTIALEQ", "COPY", "CLONE", "DEBUG"}, memo |-> m1]
                    [] OTHER ->
                         IF is_prim(ty, symtab) THEN [set |-> DerivesAll, memo |-> m1]
                         ELSE [set |-> DerivesAll \ {"COPY"}, memo |-> m1]
         IN  [set |-> r.set, memo |-> MapInsert(r.memo, ty, r.set)]

derive_of(ty, symtab) == derivable(ty, symtab, EmptyMap).set

(***************************************************************************)
(* Rendering of values and types as tokens.                                *)
(***************************************************************************)
\* The least i64, at the scaled width: an i64 is twice as wide as an i32.
I64Min == 0 - 2 ^ (2 * WordBits - 1)

\* i64::abs without overflow checks: the least i64 has no positive
\* counterpart and comes back as it is.
Abs(n) == IF n = I64Min THEN n ELSE IF n < 0 THEN 0 - n ELSE n

\* Value::as_ident does not return: abs overflows on the least i64 where
\* overflow is checked, and elsewhere Ident::new refuses the text with a
\* minus sign in it.
as_ident_panics(val) == val.k = "Const" /\ val.v = I64Min

\* Value::as_ident: the label of a union case.
as_ident(val) ==
    IF val.k = "Ident" THEN quote_ident(val.id)
    ELSE "Const" \o (IF val.v < 0 THEN "_" ELSE "") \o ToString(Abs(val.v))

\* Value::as_token: a literal, a bare constant name, or scope :: name.
value_as_token(val, symtab) ==
    IF val.k = "Const" THEN [t |-> "lit", v |-> val.v]
    ELSE LET c == getconst(symtab, val.id)
         IN  IF IsSome(c) /\ IsSome(c.v.scope)
             THEN [t |-> "path", scope |-> quote_ident(c.v.scope.v), name |-> quote_ident(val.id)]
             ELSE [t |-> "name", name |-> quote_ident(val.id)]

UnnamedType(ty) == [kind |-> "UnnamedType", ty |-> ty]

PrimToken(kind) ==
    CASE kind = "Int" -> "i32"
      [] kind = "UInt" -> "u32"
      [] kind = "Hyper" -> "i64"
      [] kind = "UHyper" -> "u64"
      [] kind = "Float" -> "f32"
      [] kind = "Double" -> "f64"
      [] kind = "Quadruple" -> "f128"
      [] kind = "Bool" -> "bool"
      [] kind = "String" -> "String"
      [] kind = "Opaque" -> "Vec<u8>"

\* Type::as_token.
RECURSIVE type_as_token(_, _)
type_as_token(ty, symtab) ==
    CASE ty.k \in PrimKinds \cup {"String", "Opaque"} -> Ok([t |-> PrimToken(ty.k)])
      [] ty.k = "Option" ->
            LET tok == type_as_token(ty.ty, symtab)
            IN  IF IsErr(tok) THEN tok
                ELSE IF is_boxed(ty.ty, symtab)
                THEN Ok([t |-> "Option", of |-> [t |-> "Box", of |-> tok.v]])
                ELSE Ok([t |-> "Option", of |-> tok.v])
      [] ty.k = "Array" ->
            IF ty.ty.k \in {"String", "Opaque"}
            THEN Ok([t |-> "array", of |-> [t |-> "u8"], len |-> value_as_token(ty.len, symtab)])
            ELSE LET tok == type_as_token(ty.ty, symtab)
                 IN  IF IsErr(tok) THEN tok
                     ELSE Ok([t |-> "array", of |-> tok.v, len |-> value_as_token(ty.len, symtab)])
      [] ty.k = "Flex" ->
            IF ty.ty.k \in {"String", "Opaque"} THEN Ok([t |-> PrimToken(ty.ty.k)])
            ELSE LET tok == type_as_token(ty.ty, symtab)
                 IN  IF IsErr(tok) THEN tok ELSE Ok([t |-> "Vec", of |-> tok.v])
      [] ty.k = "Ident" -> Ok([t |-> "name", name |-> quote_ident(ty.name)])
      [] OTHER -> Err(UnnamedType(ty))

(***************************************************************************)
(* Emit::define.                                                           *)
(***************************************************************************)
IncompatSelector(selector, val) == [kind |-> "IncompatSelector", selector |-> selector, value |-> val]
DiscriminantValueUnknown(val) == [kind |-> "DiscriminantValueUnknown", value |-> val]
UnimplementedType(ty) == [kind |-> "UnimplementedType", ty |-> ty]

\* The first failure of a sequence of results, or the sequence of their values
\* (collect::<Result<Vec<_>>>; a panic ends the iteration as well).
RECURSIVE collect_results(_)
collect_results(rs) ==
    IF rs = <<>> THEN Ok(<<>>)
    ELSE IF ~IsOk(Head(rs)) THEN Head(rs)
    ELSE LET rest == collect_results(Tail(rs))
         IN  IF ~IsOk(rest) THEN rest ELSE Ok(<<Head(rs).v>> \o rest.v)

\* The values of the Some elements, in order (filter_map).
RECURSIVE filter_some(_)
filter_some(os) ==
    IF os = <<>> THEN <<>>
    ELSE (IF IsSome(Head(os)) THEN <<Head(os).v>> ELSE <<>>) \o filter_some(Tail(os))

define_const(name, val) ==
    Ok([item |-> "const", name |-> quote_ident(name), val |-> val])

define_typesyn(name, ty, symtab) ==
    LET tok == type_as_token(ty, symtab)
    IN  IF IsErr(tok) THEN tok
        ELSE Ok([item |-> "type", name |-> quote_ident(name), tok |-> tok.v])

\* A compatcase that takes any Const for an integer selector, signed or not.
compatcase_any_const(selector, case, symtab) ==
    IF selector.k = "Void" THEN FALSE
    ELSE IF case.k = "Const" THEN selector.ty.k \in {"Int", "Hyper", "UInt", "UHyper"}
    ELSE IF selector.ty.k = "Bool" THEN case.id \in {"TRUE", "FALSE"}
    ELSE IF selector.ty.k = "Ident"
    THEN LET c == getconst(symtab, case.id)
         IN  IF IsSome(c) /\ IsSome(c.v.scope) THEN c.v.scope.v = selector.ty.name ELSE FALSE
    ELSE FALSE

\* The closure compatcase of Typespec::define: is the case value compatible
\* with the union's selector?
compatcase(selector, case, symtab) ==
    IF selector.k = "Void" THEN FALSE
    ELSE LET seltype == selector.ty
         IN  IF case.k = "Const" /\ case.v < 0 THEN seltype.k \in {"Int", "Hyper"}
             ELSE IF case.k = "Const" THEN seltype.k \in {"Int", "Hyper", "UInt", "UHyper"}
             ELSE IF seltype.k = "Bool" THEN case.id \in {"TRUE", "FALSE"}
             ELSE IF seltype.k = "Ident"
             THEN LET c == getconst(symtab, case.id)
                  IN  IF IsSome(c) /\ IsSome(c.v.scope) THEN c.v.scope.v = seltype.name
                      ELSE FALSE
             ELSE FALSE

\* One variant of the tagged enum emitted for a union case.
define_union_case(selector, uc, symtab) ==
    IF ~compatcase(selector, uc.val, symtab) THEN Err(IncompatSelector(selector, uc.val))
    ELSE IF uc.decl.k = "Void" THEN Ok([label |-> as_ident(uc.val), payload |-> None])
    ELSE LET tok == type_as_token(uc.decl.ty, symtab)
         IN  IF IsErr(tok) THEN tok
             ELSE Ok([label |-> as_ident(uc.val), payload |-> Some(tok.v)])

define_union_default(defl, symtab) ==
    IF IsNone(defl) THEN Ok(<<>>)
    ELSE IF defl.v.k = "Void" THEN Ok(<<[label |-> "default", payload |-> None]>>)
    ELSE LET tok == type_as_token(defl.v.ty, symtab)
         IN  IF IsErr(tok) THEN tok
             ELSE IF is_boxed(defl.v.ty, symtab)
             THEN Ok(<<[label |-> "default", payload |-> Some([t |-> "Box", of |-> tok.v])]>>)
             ELSE Ok(<<[label |-> "default", payload |-> Some(tok.v)]>>)

\* The members an enum declaration gets: those whose name is bound, with a
\* scope, in the symbol table; the value is the one bound there.
define_enum_members(edefs, symtab) ==
    filter_some([i \in DOMAIN edefs |->
        LET c == getconst(symtab, edefs[i].name)
        IN  IF IsSome(c) /\ IsSome(c.v.scope)
            THEN Some([field |-> quote_ident(edefs[i].name), val |-> c.v.val])
            ELSE None])

define_struct_fields(decls, symtab) ==
    collect_results(filter_some([i \in DOMAIN decls |->
        IF decls[i].k = "Void" THEN None
        ELSE LET tok == type_as_token(decls[i].ty, symtab)
             IN  IF IsErr(tok) THEN Some(tok)
                 ELSE Some(Ok([field |-> quote_ident(decls[i].name), tok |-> tok.v]))]))

define_typespec(name, ty, symtab) ==
    CASE ty.k = "Enum" ->
            Ok([item |-> "enum", name |-> quote_ident(name), derive |-> derive_of(ty, symtab),
                members |-> define_enum_members(ty.defs, symtab)])
      [] ty.k = "Struct" ->
            LET fields == define_struct_fields(ty.decls, symtab)
            IN  IF IsErr(fields) THEN fields
                ELSE Ok([item |-> "struct", name |-> quote_ident(name),
                         derive |-> derive_of(ty, symtab), fields |-> fields.v])
      [] ty.k = "Union" ->
            LET cases == collect_results([i \in DOMAIN ty.cases |->
                             define_union_case(ty.sel, ty.cases[i], symtab)])
                defl == define_union_default(ty.defl, symtab)
            IN  IF IsErr(cases) THEN cases
                ELSE IF IsErr(defl) THEN defl
                ELSE Ok([item |-> "union", name |-> quote_ident(name),
                         derive |-> derive_of(ty, symtab), variants |-> cases.v \o defl.v])
      [] ty.k \in {"Flex", "Array"} ->
            LET tok == type_as_token(ty, symtab)
            IN  IF IsErr(tok) THEN tok
                ELSE Ok([item |-> "newtype", name |-> quote_ident(name),
                         derive |-> derive_of(ty, symtab), tok |-> tok.v])
      [] OTHER ->
            LET tok == type_as_token(ty, symtab)
            IN  IF IsErr(tok) THEN tok
                ELSE Ok([item |-> "type", name |-> quote_ident(name), tok |-> tok.v])

(***************************************************************************)
(* Emitpack::pack.                                                         *)
(***************************************************************************)
maxsz_token(max, symtab) ==
    IF IsNone(max) THEN None ELSE Some(value_as_token(max.v, symtab))

\* Type::packer: the expression that packs one value of the type.
packer(ty, symtab) ==
    CASE ty.k = "Enum" -> [call |-> "cast_i32_pack"]
      [] ty.k = "Flex" ->
            [call |-> (IF ty.ty.k = "Opaque" THEN "pack_opaque_flex"
                       ELSE IF ty.ty.k = "String" THEN "pack_string" ELSE "pack_flex"),
             maxsz |-> maxsz_token(ty.max, symtab)]
      [] ty.k = "Array" ->
            [call |-> (IF ty.ty.k \in {"Opaque", "String"} THEN "pack_opaque_array" ELSE "pack_array")]
      [] OTHER -> [call |-> "pack"]

\* The name of the runtime constructor the emitted default arm calls.
PackDefaultCtor == "invalidcase"

\* The match arm emitted for one union case.
pack_union_case(uc, symtab) ==
    [label |-> as_ident(uc.val),
     bind |-> uc.decl.k = "Named",
     disc |-> Some(value_as_token(uc.val, symtab)),
     payload |-> IF uc.decl.k = "Named" THEN Some(packer(uc.decl.ty, symtab)) ELSE None,
     fail |-> None]

pack_union_default(defl) ==
    IF IsNone(defl) THEN <<>>
    ELSE <<[label |-> "default",
            bind |-> defl.v.k = "Named",
            disc |-> None,
            payload |-> None,
            fail |-> Some([ctor |-> PackDefaultCtor, arg |-> 0 - 1])]>>

pack_impl(name, inline, body) ==
    Ok(Some([item |-> "impl_pack", name |-> quote_ident(name), inline |-> inline, body |-> body]))

pack_typespec(name, ty, symtab) ==
    CASE ty.k = "Enum" -> pack_impl(name, TRUE, [b |-> "expr", of |-> "self", p |-> packer(ty, symtab)])
      [] ty.k = "Struct" ->
            pack_impl(name, FALSE,
                [b |-> "sum",
                 fields |-> filter_some([i \in DOMAIN ty.decls |->
                     IF ty.decls[i].k = "Void" THEN None
                     ELSE Some([field |-> quote_ident(ty.decls[i].name),
                                p |-> packer(ty.decls[i].ty, symtab)])])])
      [] ty.k = "Union" ->
            pack_impl(name, FALSE,
                [b |-> "match",
                 arms |-> [i \in DOMAIN ty.cases |-> pack_union_case(ty.cases[i], symtab)]
                          \o pack_union_default(ty.defl)])
      [] ty.k \in {"Flex", "Array"} ->
            pack_impl(name, FALSE, [b |-> "expr", of |-> "self.0", p |-> packer(ty, symtab)])
      [] ty.k = "Ident" -> Ok(None)
      [] OTHER ->
            IF is_prim(ty, symtab) THEN Ok(None)
            ELSE pack_impl(name, FALSE, [b |-> "expr", of |-> "self", p |-> packer(ty, symtab)])

(***************************************************************************)
(* Emitpack::unpack.                                                       *)
(***************************************************************************)
\* Type::unpacker: the expression that unpacks one value of the type.  The
\* element type of a general array is rendered with as_token(..).unwrap().
unpacker(ty, symtab) ==
    CASE ty.k = "Array" ->
            IF ty.ty.k \in {"Opaque", "String"}
            THEN Ok([call |-> "unpack_opaque_array", len |-> value_as_token(ty.len, symtab)])
            ELSE LET tok == type_as_token(ty.ty, symtab)
                 IN  IF IsErr(tok) THEN Panic("unwrap")
                     ELSE Ok([call |-> "unpack_array_with", elem |-> tok.v,
                              len |-> value_as_token(ty.len, symtab)])
      [] ty.k = "Flex" ->
            Ok([call |-> (IF ty.ty.k = "String" THEN "unpack_string"
                          ELSE IF ty.ty.k = "Opaque" THEN "unpack_opaque_flex" ELSE "unpack_flex"),
                maxsz |-> maxsz_token(ty.max, symtab)])
      [] OTHER -> Ok([call |-> "unpack"])

\* The match arm emitted for one enum member, if its name is bound.
unpack_enum_arm(self_name, def, symtab) ==
    LET c == getconst(symtab, def.name)
        tok == quote_ident(def.name)
    IN  IF IsNone(c) THEN None
        ELSE IF IsSome(c.v.scope)
        THEN Some([guard |-> [t |-> "path", scope |-> self_name, name |-> tok]])
        ELSE Some([guard |-> [t |-> "name", name |-> tok]])

\* An arm that compares with the case's integer as it is, without `as i32`.
unpack_union_case_wide(uc, symtab) ==
    LET disc == value(symtab, uc.val)
    IN  IF IsNone(disc) THEN Err(DiscriminantValueUnknown(uc.val))
        ELSE Ok([label |-> as_ident(uc.val), disc |-> Some(disc.v),
                 payload |-> IF uc.decl.k = "Void" THEN None ELSE Some([call |-> "unpack"]),
                 fail |-> None])

\* An arm that takes an unknown identifier for 0.
unpack_union_case_lenient(uc, symtab) ==
    LET disc == value(symtab, uc.val)
    IN  Ok([label |-> as_ident(uc.val),
            disc |-> Some(IF IsNone(disc) THEN 0 ELSE AsI32(disc.v)),
            payload |-> IF uc.decl.k = "Void" THEN None ELSE Some([call |-> "unpack"]),
            fail |-> None])

\* The match arm emitted for one union case.
unpack_union_case(uc, symtab) ==
    LET disc == value(symtab, uc.val)
    IN  IF IsNone(disc) THEN Err(DiscriminantValueUnknown(uc.val))
        ELSE IF uc.decl.k = "Void"
        THEN Ok([label |-> as_ident(uc.val), disc |-> Some(AsI32(disc.v)),
                 payload |-> None, fail |-> None])
        ELSE LET u == unpacker(uc.decl.ty, symtab)
             IN  IF ~IsOk(u) THEN u
                 ELSE Ok([label |-> as_ident(uc.val), disc |-> Some(AsI32(disc.v)),
                          payload |-> Some(u.v), fail |-> None])

\* The last arm: the default variant, or the invalid_named_case failure.
unpack_union_last(self_name, defl, symtab) ==
    IF IsNone(defl)
    THEN Ok([label |-> "", disc |-> None, payload |-> None,
             fail |-> Some([ctor |-> "invalid_named_case", name |-> self_name])])
    ELSE IF defl.v.k = "Void"
    THEN Ok([label |-> "default", disc |-> None, payload |-> None, fail |-> None])
    ELSE LET u == unpacker(defl.v.ty, symtab)
         IN  IF ~IsOk(u) THEN u
             ELSE Ok([label |-> "default", disc |-> None, payload |-> Some(u.v), fail |-> None])

unpack_impl(name, inline, body) ==
    Ok(Some([item |-> "impl_unpack", name |-> quote_ident(name), inline |-> inline, body |-> body]))

unpack_typespec(name, ty, symtab) ==
    CASE ty.k = "Enum" ->
            unpack_impl(name, TRUE,
                [b |-> "enum_match",
                 arms |-> filter_some([i \in DOMAIN ty.defs |->
                              unpack_enum_arm(quote_ident(name), ty.defs[i], symtab)]),
                 fail |-> [ctor |-> "invalid_named_enum", name |-> quote_ident(name)]])
      [] ty.k = "Struct" ->
            LET fields == collect_results(filter_some([i \in DOMAIN ty.decls |->
                              IF ty.decls[i].k = "Void" THEN None
                              ELSE LET u == unpacker(ty.decls[i].ty, symtab)
                                   IN  IF ~IsOk(u) THEN Some(u)
                                       ELSE Some(Ok([field |-> quote_ident(ty.decls[i].name),
                                                     u |-> u.v]))]))
            IN  IF ~IsOk(fields) THEN fields
                ELSE unpack_impl(name, FALSE, [b |-> "struct", fields |-> fields.v])
      [] ty.k = "Union" ->
            LET cases == collect_results([i \in DOMAIN ty.cases |->
                             unpack_union_case(ty.cases[i], symtab)])
                last == unpack_union_last(quote_ident(name), ty.defl, symtab)
            IN  IF ~IsOk(cases) THEN cases
                ELSE IF ~IsOk(last) THEN last
                ELSE IF ty.sel.k = "Void" THEN Panic("void switch selector?")
                ELSE LET selunpack == unpacker(ty.sel.ty, symtab)
                     IN  IF ~IsOk(selunpack) THEN selunpack
                         ELSE unpack_impl(name, FALSE,
                                  [b |-> "match", sel |-> selunpack.v,
                                   arms |-> Append(cases.v, last.v)])
      [] ty.k = "Option" ->
            unpack_impl(name, FALSE, [b |-> "expr", u |-> unpacker(ty, symtab).v])
      [] ty.k \in {"Flex", "Array"} ->
            LET u == unpacker(ty, symtab)
            IN  IF ~IsOk(u) THEN u
                ELSE unpack_impl(name, FALSE, [b |-> "newtype", u |-> u.v])
      [] ty.k = "Ident" -> Ok(None)
      [] OTHER ->
            IF is_prim(ty, symtab) THEN Ok(None) ELSE Err(UnimplementedType(ty))

(***************************************************************************)
(* The run-time meaning of the emitted routines.  The wire is a sequence   *)
(* of 32-bit words (XDR is big-endian and 4-byte aligned); a routine that  *)
(* refers to an item no emitted declaration or runtime function provides   *)
(* does not build.                                                         *)
(***************************************************************************)
NoBuild(why) == [k |-> "NoBuild", why |-> why]

\* The constructors of xdr_codec::Error.
RuntimeCtors == {"invalid_case", "invalid_enum", "invalid_len", "invalid_named_case", "invalid_named_enum"}

RuntimeError(ctor, name, arg) ==
    CASE ctor = "invalid_case" -> [kind |-> "InvalidCase", case |-> arg]
      [] ctor = "invalid_enum" -> [kind |-> "InvalidEnum", value |-> arg]
      [] ctor = "invalid_len" -> [kind |-> "InvalidLen", len |-> arg]
      [] ctor = "invalid_named_case" -> [kind |-> "InvalidNamedCase", name |-> name, value |-> arg]
      [] ctor = "invalid_named_enum" -> [kind |-> "InvalidNamedEnum", name |-> name, value |-> arg]

\* Reading past the end of the input.
UnexpectedEof == [kind |-> "IOError"]

\* The value of variant `name` in the enum declaration emitted under `scope`.
EnumMemberValue(symtab, scope, name) ==
    LET owners == {n \in DOMAIN symtab.typespecs :
                      quote_ident(n) = scope /\ symtab.typespecs[n].ty.k = "Enum"}
    IN  IF owners = {} THEN None
        ELSE LET ms == define_enum_members(symtab.typespecs[CHOOSE n \in owners : TRUE].ty.defs, symtab)
                 hits == {i \in DOMAIN ms : ms[i].field = name}
             IN  IF hits = {} THEN None
                 ELSE Some(ms[CHOOSE i \in hits : \A j \in hits : i <= j].val)

\* The value of the emitted `pub const name: i64`.
ConstItemValue(symtab, name) ==
    LET hits == {n \in DOMAIN symtab.consts :
                    quote_ident(n) = name /\ IsNone(symtab.consts[n].scope)}
    IN  IF hits = {} THEN None ELSE Some(symtab.consts[CHOOSE n \in hits : TRUE].val)

\* The value a discriminant token denotes in the emitted program.
TokenValue(tok, symtab) ==
    CASE tok.t = "lit" -> Some(tok.v)
      [] tok.t = "path" -> EnumMemberValue(symtab, tok.scope, tok.name)
      [] tok.t = "name" -> ConstItemValue(symtab, tok.name)

FirstIndex(S) == CHOOSE i \in S : \A j \in S : i <= j

\* Does the enum declaration emitted under `scope` build?  Its variants
\* have distinct names and distinct discriminant values.
EnumDeclBuilds(symtab, scope) ==
    \A n \in DOMAIN symtab.typespecs :
        (quote_ident(n) = scope /\ symtab.typespecs[n].ty.k = "Enum") =>
            LET ms == define_enum_members(symtab.typespecs[n].ty.defs, symtab)
            IN  \A i, j \in DOMAIN ms :
                    i # j => ms[i].field # ms[j].field /\ ms[i].val # ms[j].val

\* Does the emitted pack routine build against the runtime?
PackBuilds(impl, symtab) ==
    CASE impl.body.b = "match" ->
            \A i \in DOMAIN impl.body.arms :
                LET arm == impl.body.arms[i]
                IN  /\ IsSome(arm.fail) => arm.fail.v.ctor \in RuntimeCtors
                    /\ IsSome(arm.disc) => IsSome(TokenValue(arm.disc.v, symtab))
      [] impl.body.b = "expr" /\ impl.body.p.call = "cast_i32_pack" ->
            EnumDeclBuilds(symtab, impl.name)
      [] OTHER -> TRUE

\* Running the emitted pack routine `impl` on `val`.
\*   union value:  [variant |-> label, payload |-> None or Some(i32)]
\*   enum value:   [variant |-> member]
\*   struct value: a sequence of i32, one per field
RunPack(impl, val, symtab) ==
    IF ~PackBuilds(impl, symtab) THEN NoBuild("pack")
    ELSE CASE impl.body.b = "match" ->
                 LET hits == {i \in DOMAIN impl.body.arms : impl.body.arms[i].label = val.variant}
                 IN  IF hits = {} THEN NoBuild("no such variant")
                     ELSE LET arm == impl.body.arms[FirstIndex(hits)]
                          IN  IF IsSome(arm.fail)
                              THEN Err(RuntimeError(arm.fail.v.ctor, "", arm.fail.v.arg))
                              ELSE Ok(<<AsI32(TokenValue(arm.disc.v, symtab).v)>>
                                      \o (IF IsSome(arm.payload) THEN <<val.payload.v>> ELSE <<>>))
           [] impl.body.b = "expr" /\ impl.body.p.call = "cast_i32_pack" ->
                 LET v == EnumMemberValue(symtab, impl.name, val.variant)
                 IN  IF IsNone(v) THEN NoBuild("no such variant") ELSE Ok(<<AsI32(v.v)>>)
           [] impl.body.b = "sum" -> Ok(val)
           [] OTHER -> NoBuild("not interpreted")

\* Does the emitted unpack routine build?  An enum arm that yields a bare
\* constant has the wrong type; a path must name an emitted variant.
UnpackBuilds(impl, symtab) ==
    CASE impl.body.b = "enum_match" ->
            /\ EnumDeclBuilds(symtab, impl.name)
            /\ \A i \in DOMAIN impl.body.arms :
                  LET g == impl.body.arms[i].guard
                  IN  g.t = "path" /\ IsSome(EnumMemberValue(symtab, g.scope, g.name))
      [] impl.body.b = "match" ->
            \A i \in DOMAIN impl.body.arms :
                IsSome(impl.body.arms[i].fail) => impl.body.arms[i].fail.v.ctor \in RuntimeCtors
      [] OTHER -> TRUE

\* The arms of a match whose guard accepts the word d, in order.
EnumArmsMatching(impl, d, symtab) ==
    {i \in DOMAIN impl.body.arms :
        LET g == impl.body.arms[i].guard
        IN  AsI32(EnumMemberValue(symtab, g.scope, g.name).v) = d}

UnionArmsMatching(impl, d) ==
    {i \in DOMAIN impl.body.arms :
        IsNone(impl.body.arms[i].disc) \/ impl.body.arms[i].disc.v = d}

\* Running the emitted unpack routine `impl` on `wire`: the value and the
\* number of words read, or the runtime error.
RunUnpack(impl, wire, symtab) ==
    IF ~UnpackBuilds(impl, symtab) THEN NoBuild("unpack")
    ELSE CASE impl.body.b = "enum_match" ->
                 IF wire = <<>> THEN Err(UnexpectedEof)
                 ELSE LET hits == EnumArmsMatching(impl, wire[1], symtab)
                      IN  IF hits = {}
                          THEN Err(RuntimeError(impl.body.fail.ctor, impl.body.fail.name, wire[1]))
                          ELSE Ok([val |-> [variant |-> impl.body.arms[FirstIndex(hits)].guard.name],
                                   sz |-> 1])
           [] impl.body.b = "match" ->
                 IF wire = <<>> THEN Err(UnexpectedEof)
                 ELSE LET arm == impl.body.arms[FirstIndex(UnionArmsMatching(impl, wire[1]))]
                      IN  IF IsSome(arm.fail)
                          THEN Err(RuntimeError(arm.fail.v.ctor, arm.fail.v.name, wire[1]))
                          ELSE IF IsNone(arm.payload)
                          THEN Ok([val |-> [variant |-> arm.label, payload |-> None], sz |-> 1])
                          ELSE IF Len(wire) < 2 THEN Err(UnexpectedEof)
                          ELSE Ok([val |-> [variant |-> arm.label, payload |-> Some(wire[2])],
                                   sz |-> 2])
           [] impl.body.b = "struct" ->
                 IF Len(wire) < Len(impl.body.fields) THEN Err(UnexpectedEof)
                 ELSE Ok([val |-> SubSeq(wire, 1, Len(impl.body.fields)),
                          sz |-> Len(impl.body.fields)])
           [] OTHER -> NoBuild("not interpreted")

\* The values of the type a declaration emits (payloads and fields are i32).
PayloadWords == {0 - Half, 1}

ValuesOf(decl) ==
    CASE decl.item = "enum" -> {[variant |-> decl.members[i].field] : i \in DOMAIN decl.members}
      [] decl.item = "union" ->
            UNION {IF IsNone(decl.variants[i].payload)
                   THEN {[variant |-> decl.variants[i].label, payload |-> None]}
                   ELSE {[variant |-> decl.variants[i].label, payload |-> Some(w)] : w \in PayloadWords}
                   : i \in DOMAIN decl.variants}
      [] decl.item = "struct" -> [DOMAIN decl.fields -> PayloadWords]
      [] OTHER -> {}

(***************************************************************************)
(* State.                                                                  *)
(***************************************************************************)
VARIABLES
    \* --- one typespec taken through define, pack, unpack and a run ---
    e_pc,       \* "new", "built", "defined", "packed", "emitted", "ran", "aborted"
    e_defns,    \* the definitions the symbol table is built from
    e_name,     \* the name of the typespec under emission
    e_symtab,   \* the symbol table
    e_ty,       \* the type the symbol table holds for e_name
    e_define,   \* the result of Typespec::define
    e_pack,     \* the result of Typespec::pack
    e_unpack,   \* the result of Typespec::unpack
    e_run       \* the last run of an emitted routine

evars == <<e_pc, e_defns, e_name, e_symtab, e_ty, e_define, e_pack, e_unpack, e_run>>

VARIABLES
    \* --- one call of a driver: generate, generate_pretty, compile or main ---
    d_entry,    \* the driver called
    d_input,    \* the XDR text handed to it: malformed, or a list of definitions
    d_opts,     \* exclude_defs, xdr_header, tagging, and the files the call meets
    d_pc,       \* the position of the call
    d_xdr,      \* the symbol table
    d_tags,     \* the tag attachments (tagged_types)
    d_jobs,     \* the emit calls the chained iterator has still to make
    d_res,      \* the fragments collected, then the ones still to be written
    d_result,   \* what the driver returned
    d_out,      \* what was written to the output stream
    d_file,     \* the destination file of compile: "absent", "old" or "created"
    d_stderr,   \* the lines written to standard error
    d_exit      \* the exit code of the process

dvars == <<d_entry, d_input, d_opts, d_pc, d_xdr, d_tags, d_jobs, d_res, d_result,
           d_out, d_file, d_stderr, d_exit>>

vars == <<evars, dvars>>

Unset == [k |-> "Unset"]

(***************************************************************************)
(* The typespecs and contexts the emitters are applied to.                 *)
(***************************************************************************)
\* An unsigned value that does not fit a positive i32 (3000000000 at 32 bits).
BigUnsigned == Half + 1

CaseValues ==
    {VConst(0 - 1), VConst(0), VConst(1), VConst(BigUnsigned), VConst(Modulus + 1),
     VIdent("A"), VIdent("B"), VIdent("TRUE"), VIdent("Z")}

\* Each case value with a payload or without one.
CasePool ==
    {UnionCase(v, IF v \in {VConst(0), VConst(BigUnsigned), VIdent("B")}
                  THEN Named("p", TInt) ELSE Void) : v \in CaseValues}

SelectorPool ==
    {Void, Named("s", TInt), Named("s", TUInt), Named("s", THyper), Named("s", TUHyper),
     Named("s", TBool), Named("s", TFloat), Named("s", TIdent("E")), Named("s", TIdent("F"))}

\* The selectors the two-case unions are built over.
PairSelectors == {Named("s", TInt), Named("s", TUInt), Named("s", TIdent("E"))}

DefaultPool == {None, Some(Void), Some(Named("rest", TInt))}

\* Case values at the edge: the least i64, and a name that is a keyword of
\* Rust.
EdgeCases == {UnionCase(VConst(I64Min), Void), UnionCase(VIdent("type"), Void)}

TestUnions ==
    {TUnion(s, <<c>>, d) : <<s, c, d>> \in SelectorPool \X CasePool \X DefaultPool}
    \cup {TUnion(s, <<c>>, None) : <<s, c>> \in SelectorPool \X EdgeCases}
    \cup {TUnion(s, <<UnionCase(v, Void), c>>, None) :
            <<s, v, c>> \in {Named("s", THyper), Named("s", TIdent("E"))}
                            \X {VConst(1), VIdent("Z")} \X EdgeCases}
    \cup {TUnion(q[1], <<q[2], q[3]>>, q[4]) :
            q \in {r \in PairSelectors \X CasePool \X CasePool \X DefaultPool : r[2] # r[3]}}

EnumValuePool ==
    {None, Some(VConst(1)), Some(VConst(2)), Some(VConst(Modulus + 1)), Some(VIdent("X")), Some(VIdent("Z"))}

TestEnums ==
    {TEnum(<<EnumDefn("A", v)>>) : v \in EnumValuePool}
    \cup {TEnum(<<EnumDefn("A", v), EnumDefn("C", w)>>) : <<v, w>> \in EnumValuePool \X EnumValuePool}
    \cup {TEnum(<<EnumDefn("C", v), EnumDefn("A", w)>>) : <<v, w>> \in EnumValuePool \X EnumValuePool}

TestStructs == {TStruct(<<Named("a", TInt), Void, Named("type", TInt)>>)}

\* The types the derivation analyzer is applied to: elements, fixed arrays
\* around the limit of 32, variable-length arrays and optionals, alone, nested
\* and as the field of a struct or the payload of a union.
DeriveElems == {TInt, TFloat, TString, TOpaque, TIdent("T"), TIdent("Z"), TIdent("D")}

DeriveLens == {VConst(MaxDeriveArrayLen), VConst(MaxDeriveArrayLen + 1), VIdent("X"), VIdent("Z")}

DeriveArrays == {TArray(e, l) : <<e, l>> \in DeriveElems \X DeriveLens}

DeriveNested == {TArray(a, VConst(1)) : a \in DeriveArrays}

DeriveInner ==
    DeriveElems \cup DeriveArrays \cup DeriveNested
    \cup {TFlex(e, None) : e \in DeriveElems} \cup {TOption(e) : e \in DeriveElems}

DeriveTypes ==
    DeriveArrays \cup DeriveNested \cup {TFlex(e, None) : e \in DeriveElems}
    \cup {TStruct(<<Named("a", t), Named("b", TInt)>>) : t \in DeriveInner}
    \cup {TUnion(Named("s", TInt), <<UnionCase(VConst(0), Named("p", t))>>, None) :
             t \in DeriveElems \cup DeriveArrays}
    \cup {TUnion(Named("s", TInt), <<UnionCase(VConst(0), Named("p", t)), UnionCase(VConst(1), Void)>>, d) :
             <<t, d>> \in DeriveElems \X {Some(Void), Some(Named("rest", TFloat))}}
    \cup {TStruct(<<Void>>)}

\* What T and X stand for where those types are defined; D is the type under
\* emission, so a T that holds a D makes the two mutually recursive.
DeriveContexts ==
    {<<>>,
     <<DTypespec("T", TStruct(<<Named("n", TOption(TIdent("D")))>>))>>,
     <<DTypesyn("D", TInt)>>,
     <<DTypesyn("T", TInt), DConst("X", 1)>>,
     <<DTypesyn("T", TFlex(TInt, None)), DConst("X", 1)>>,
     <<DTypespec("T", TArray(TOpaque, VConst(MaxDeriveArrayLen + 1))), DConst("X", MaxDeriveArrayLen + 1)>>}

\* Synonyms that name themselves or each other, and types over them.
CyclicContexts ==
    {<<DTypesyn("T", TIdent("T"))>>,
     <<DTypesyn("T", TIdent("Z")), DTypesyn("Z", TIdent("T"))>>}

CyclicTypes ==
    {TStruct(<<Named("a", TIdent("T")), Named("b", TInt)>>),
     TStruct(<<Named("a", TOption(TIdent("T"))), Named("b", TInt)>>),
     TUnion(Named("s", TInt), <<UnionCase(VConst(0), Void)>>, Some(Named("rest", TIdent("Z")))),
     TArray(TIdent("T"), VConst(1)),
     TFlex(TIdent("Z"), None)}

\* Types over references that carry a derive set of their own.
PrecomputedElems ==
    {ident_with_derives("D", DerivesAll), ident_with_derives("T", DerivesAll),
     ident_with_derives("Z", {"CLONE", "DEBUG"})}

PrecomputedTypes ==
    {TStruct(<<Named("a", w), Named("b", TInt)>>) : w \in PrecomputedElems}
    \cup {TArray(w, VConst(1)) : w \in PrecomputedElems}
    \cup {TFlex(w, None) : w \in PrecomputedElems}

\* Typespecs over a primitive or over a reference to another type.
TestAliases == {TInt, TUHyper, TFloat, TBool, TIdent("E"), TIdent("X"), TIdent("Z")}

CtxE == DTypespec("E", TEnum(<<EnumDefn("A", None), EnumDefn("B", Some(VConst(1)))>>))
CtxF == DTypespec("F", TEnum(<<EnumDefn("A", Some(VConst(2)))>>))
CtxX == DConst("X", 1)
CtxA == DConst("A", 5)
CtxTRUE == DConst("TRUE", 1)

\* What is defined before and after the typespec under emission.
EmitContexts ==
    {<< <<>>, <<>> >>, << <<CtxE>>, <<>> >>, << <<>>, <<CtxE>> >>,
     << <<CtxE, CtxF>>, <<>> >>, << <<CtxF, CtxE>>, <<>> >>, << <<CtxE, CtxTRUE>>, <<>> >>,
     << <<CtxX>>, <<>> >>, << <<>>, <<CtxX>> >>, << <<>>, <<CtxF>> >>, << <<>>, <<CtxA>> >>}

EmitInputs ==
    {c[1] \o <<DTypespec("U", t)>> \o c[2] : <<c, t>> \in EmitContexts \X TestUnions}
    \cup {c[1] \o <<DTypespec("H", t)>> \o c[2] : <<c, t>> \in EmitContexts \X TestEnums}
    \cup {c[1] \o <<DTypespec("S", t)>> \o c[2] : <<c, t>> \in EmitContexts \X TestStructs}
    \cup {c[1] \o <<DTypespec("a", t)>> \o c[2] : <<c, t>> \in EmitContexts \X TestAliases}
    \cup {c \o <<DTypespec("D", t)>> : <<c, t>> \in DeriveContexts \X DeriveTypes}
    \cup {c \o <<DTypespec("D", t)>> : <<c, t>> \in CyclicContexts \X CyclicTypes}
    \cup {c \o <<DTypespec("D", t)>> : <<c, t>> \in DeriveContexts \X PrecomputedTypes}

\* The wires handed to an emitted unpack routine: any first word, then
\* payload words.
Wires ==
    {<<>>} \cup {<<d>> \o rest : <<d, rest>> \in I32 \X SeqsUpTo(PayloadWords, MaxWire - 1)}

(***************************************************************************)
(* The emitter harness: build the symbol table, call define, pack and      *)
(* unpack on one typespec of it, then run an emitted routine.              *)
(***************************************************************************)
EInit ==
    /\ e_pc = "new"
    /\ e_defns \in EmitInputs
    /\ e_name \in {"U", "H", "S", "a", "D"}
    /\ \E i \in DOMAIN e_defns : e_defns[i].k = "Typespec" /\ e_defns[i].name = e_name
    /\ e_symtab = SymtabNew
    /\ e_ty = Void
    /\ e_define = Unset
    /\ e_pack = Unset
    /\ e_unpack = Unset
    /\ e_run = Unset

EBuild ==
    /\ e_pc = "new"
    /\ e_symtab' = update_consts(SymtabNew, e_defns, FALSE)
    /\ e_ty' = e_symtab'.typespecs[e_name].ty
    /\ e_pc' = "built"
    /\ UNCHANGED <<e_defns, e_name, e_define, e_pack, e_unpack, e_run>>
    /\ UNCHANGED dvars

\* The types written inside ty, ty included, no name looked up.
RECURSIVE Parts(_)
Parts(ty) ==
    {ty} \cup
    CASE ty.k \in {"Array", "Flex", "Option"} -> Parts(ty.ty)
      [] ty.k = "Struct" ->
            UNION {Parts(ty.decls[i].ty) : i \in {j \in DOMAIN ty.decls : ty.decls[j].k = "Named"}}
      [] ty.k = "Union" ->
            UNION {Parts(ty.cases[i].decl.ty) :
                      i \in {j \in DOMAIN ty.cases : ty.cases[j].decl.k = "Named"}}
            \cup (IF IsSome(ty.defl) /\ ty.defl.v.k = "Named" THEN Parts(ty.defl.v.ty) ELSE {})
      [] OTHER -> {}

\* define asks is_boxed of the type under every optional and, once the cases
\* of a union are rendered, of the payload of its default; one of these
\* calls never returns.
DefineOverflows(ty, symtab) ==
    \/ \E t \in Parts(ty) :
          t.k = "Option" /\ IsNone(is_boxed_nested(t.ty, symtab, ChainLimit(symtab)))
    \/ /\ ty.k = "Union" /\ IsSome(ty.defl) /\ ty.defl.v.k = "Named"
       /\ IsOk(collect_results([i \in DOMAIN ty.cases |->
                   define_union_case(ty.sel, ty.cases[i], symtab)]))
       /\ IsNone(is_boxed_nested(ty.defl.v.ty, symtab, ChainLimit(symtab)))

\* define reaches the label of a case that has none: the cases are rendered
\* in order, each after its compatibility check, up to the first that fails.
DefinePanics(ty, symtab) ==
    /\ ty.k = "Union"
    /\ \E i \in DOMAIN ty.cases :
          /\ as_ident_panics(ty.cases[i].val)
          /\ compatcase(ty.sel, ty.cases[i].val, symtab)
          /\ \A j \in 1 .. (i - 1) :
                /\ ~as_ident_panics(ty.cases[j].val)
                /\ IsOk(define_union_case(ty.sel, ty.cases[j], symtab))

\* pack renders the label of every case.
PackPanics(ty) ==
    ty.k = "Union" /\ \E i \in DOMAIN ty.cases : as_ident_panics(ty.cases[i].val)

\* The call of define; a call that recurses without end or panics kills the
\* process.
ECallDefine ==
    /\ e_pc = "built"
    /\ IF DefineOverflows(e_ty, e_symtab)
       THEN e_define' = [k |-> "StackOverflow"] /\ e_pc' = "aborted"
       ELSE IF DefinePanics(e_ty, e_symtab)
       THEN e_define' = [k |-> "Panic"] /\ e_pc' = "aborted"
       ELSE e_define' = define_typespec(e_name, e_ty, e_symtab) /\ e_pc' = "defined"
    /\ UNCHANGED <<e_defns, e_name, e_symtab, e_ty, e_pack, e_unpack, e_run>>
    /\ UNCHANGED dvars

\* The call of pack; unpack renders the same labels, but is called after
\* pack only.
ECallPack ==
    /\ e_pc = "defined"
    /\ IF PackPanics(e_ty)
       THEN e_pack' = [k |-> "Panic"] /\ e_pc' = "aborted"
       ELSE e_pack' = pack_typespec(e_name, e_ty, e_symtab) /\ e_pc' = "packed"
    /\ UNCHANGED <<e_defns, e_name, e_symtab, e_ty, e_define, e_unpack, e_run>>
    /\ UNCHANGED dvars

ECallUnpack ==
    /\ e_pc = "packed"
    /\ e_unpack' = unpack_typespec(e_name, e_ty, e_symtab)
    /\ e_pc' = "emitted"
    /\ UNCHANGED <<e_defns, e_name, e_symtab, e_ty, e_define, e_pack, e_run>>
    /\ UNCHANGED dvars

HasImpl(r) == IsOk(r) /\ IsSome(r.v)

\* The declaration and both routines of the typespec were emitted: only then
\* is there a generated program to run.
Generated == IsOk(e_define) /\ HasImpl(e_pack) /\ HasImpl(e_unpack)

\* The emitted routines RunPack and RunUnpack give a meaning to: those of
\* enums, and of structs and unions whose fields and payloads are int.
Runnable(ty) ==
    CASE ty.k = "Enum" -> TRUE
      [] ty.k = "Struct" -> \A i \in DOMAIN ty.decls : ty.decls[i].k = "Named" => ty.decls[i].ty = TInt
      [] ty.k = "Union" ->
            /\ \A i \in DOMAIN ty.cases :
                  ty.cases[i].decl.k = "Named" => ty.cases[i].decl.ty = TInt
            /\ (IsSome(ty.defl) /\ ty.defl.v.k = "Named") => ty.defl.v.ty = TInt
      [] OTHER -> FALSE

\* pack(v), then unpack of the bytes pack produced.
ERunPack ==
    /\ e_pc = "emitted"
    /\ Generated
    /\ Runnable(e_ty)
    /\ \E v \in ValuesOf(e_define.v) :
          LET packed == RunPack(e_pack.v.v, v, e_symtab)
          IN  e_run' = [op |-> "pack", val |-> v, wire |-> <<>>, packed |-> packed,
                        unpacked |-> IF IsOk(packed)
                                     THEN RunUnpack(e_unpack.v.v, packed.v, e_symtab)
                                     ELSE Unset]
    /\ e_pc' = "ran"
    /\ UNCHANGED <<e_defns, e_name, e_symtab, e_ty, e_define, e_pack, e_unpack>>
    /\ UNCHANGED dvars

ERunUnpack ==
    /\ e_pc = "emitted"
    /\ Generated
    /\ Runnable(e_ty)
    /\ \E w \in Wires :
          e_run' = [op |-> "unpack", val |-> Unset, wire |-> w, packed |-> Unset,
                    unpacked |-> RunUnpack(e_unpack.v.v, w, e_symtab)]
    /\ e_pc' = "ran"
    /\ UNCHANGED <<e_defns, e_name, e_symtab, e_ty, e_define, e_pack, e_unpack>>
    /\ UNCHANGED dvars

ENext == EBuild \/ ECallDefine \/ ECallPack \/ ECallUnpack \/ ERunPack \/ ERunUnpack

(***************************************************************************)
(* The drivers: generate, generate_pretty, compile and the command line.   *)
(***************************************************************************)
ParseError == [kind |-> "Parse"]
IOError == [kind |-> "IOError"]

Malformed == [k |-> "Malformed"]
Text(defns) == [k |-> "Text", defns |-> defns]

\* spec::specification: the definitions of the text in textual order, or a
\* parse error.
specification(input) ==
    IF input.k = "Malformed" THEN Err(ParseError) ELSE Ok(input.defns)

\* The keyword that stands before the item's name in the rendered line.
LineKeyword(tok) ==
    CASE tok.item = "const" -> "const"
      [] tok.item \in {"enum", "union"} -> "enum"
      [] tok.item \in {"struct", "newtype"} -> "struct"
      [] tok.item \in {"impl_pack", "impl_unpack"} -> "for"
      [] OTHER -> "type"

\* exclude_definition_line: does the line contain "const v", "struct v",
\* "enum v" or "for v" for some v of exclude_defs?  The text after the
\* keyword begins with the item's name, so v matches as a prefix of it.
exclude_definition_line(line, exclude_defs) ==
    \E v \in exclude_defs :
        /\ LineKeyword(line) \in {"const", "struct", "enum", "for"}
        /\ StartsWith(line.name, v)

Job(sec, name) == [sec |-> sec, name |-> name]
JobsOf(sec, names) == [i \in DOMAIN names |-> Job(sec, names[i])]

\* The constants with no scope, in iteration order.
Unscoped(xdr, names) == SelectSeq(names, LAMBDA n : IsNone(xdr.consts[n].scope))

\* The chained iterator of generate: the emit calls in the order it makes
\* them.
generate_chain(xdr) ==
    LET specs == SortedKeys(xdr.typespecs)
    IN  JobsOf("const", Unscoped(xdr, SortedKeys(xdr.consts)))
        \o JobsOf("define", specs)
        \o JobsOf("typesyn", SortedKeys(xdr.typesyns))
        \o JobsOf("pack", specs)
        \o JobsOf("unpack", specs)

\* A filter that lets the header's entries through.
filter_header_keep(m, n) == TRUE

filter_header_out(m, n) == ~m[n].header

filter_exlude(exclude_defs, n) == n \notin exclude_defs

\* The names of a map that pass both filters, in iteration order.
Kept(m, exclude_defs) ==
    SelectSeq(SortedKeys(m), LAMBDA n : filter_header_out(m, n) /\ filter_exlude(exclude_defs, n))

\* flat_map(|c| [c.define(..), Ok(tagged_types.remove(..))]).
DefineAndTag(specs) ==
    [i \in 1 .. 2 * Len(specs) |->
        IF i % 2 = 1 THEN Job("define", specs[(i + 1) \div 2]) ELSE Job("tag", specs[i \div 2])]

generate_pretty_chain(xdr, exclude_defs) ==
    LET specs == Kept(xdr.typespecs, exclude_defs)
    IN  JobsOf("const", Unscoped(xdr, Kept(xdr.consts, exclude_defs)))
        \o DefineAndTag(specs)
        \o JobsOf("typesyn", Kept(xdr.typesyns, exclude_defs))
        \o JobsOf("pack", specs)
        \o JobsOf("unpack", specs)

\* The tagging options of the example build script, with a ty_filter that
\* turns one pair of type and constant down, so that both answers occur.
const_filter(name) == StartsWith(name, "VERSION_")
ty_filter(ty, tag) == ~(ty = "Ab" /\ tag = "VERSION_2")
TagItem(ty, tag) == [item |-> "tag", name |-> ty, tag |-> tag]

RECURSIVE tagged_types_from(_, _, _, _)
tagged_types_from(input, exclude_defs, tag, result) ==
    IF input = <<>> THEN result
    ELSE LET def == Head(input)
         IN  IF def.k = "Const" /\ def.name \notin exclude_defs
             THEN tagged_types_from(Tail(input), exclude_defs,
                     IF const_filter(def.name) THEN Some(def.name) ELSE tag, result)
             ELSE IF /\ def.k = "Typespec"
                     /\ IsSome(tag)
                     /\ def.name \notin exclude_defs
                     /\ ty_filter(def.name, tag.v)
             THEN tagged_types_from(Tail(input), exclude_defs, tag,
                     MapInsert(result, def.name,
                               TagItem(quote_ident(def.name), quote_ident(tag.v))))
             ELSE tagged_types_from(Tail(input), exclude_defs, tag, result)

\* A scan that takes no notice of exclude_defs.
tagged_types_unfiltered(input, exclude_defs) == tagged_types_from(input, {}, None, EmptyMap)

tagged_types(input, exclude_defs) == tagged_types_from(input, exclude_defs, None, EmptyMap)

\* One emit call of the chain: Ok(Some(fragment)), Ok(None) when the call
\* contributes nothing, or the failure.
emit_job(job, xdr, tags) ==
    CASE job.sec = "const" -> Ok(Some(define_const(job.name, xdr.consts[job.name].val).v))
      [] job.sec = "define" ->
            LET r == define_typespec(job.name, xdr.typespecs[job.name].ty, xdr)
            IN  IF IsOk(r) THEN Ok(Some(r.v)) ELSE r
      [] job.sec = "tag" ->
            IF job.name \in DOMAIN tags THEN Ok(Some(tags[job.name])) ELSE Ok(None)
      [] job.sec = "typesyn" ->
            LET r == define_typesyn(job.name, xdr.typesyns[job.name].ty, xdr)
            IN  IF IsOk(r) THEN Ok(Some(r.v)) ELSE r
      [] job.sec = "pack" -> pack_typespec(job.name, xdr.typespecs[job.name].ty, xdr)
      [] job.sec = "unpack" -> unpack_typespec(job.name, xdr.typespecs[job.name].ty, xdr)

Fragment(job, tok) == [sec |-> job.sec, name |-> job.name, tok |-> tok]

\* The "GENERATED CODE" comment generate writes first.
Banner == [sec |-> "banner", name |-> "", tok |-> [item |-> "banner"]]

(***************************************************************************)
(* The calls the drivers are checked on.                                   *)
(***************************************************************************)
DefnPool ==
    {DConst("A", 5), DConst("VERSION_1", 1), DConst("VERSION_2", 2),
     DTypesyn("T", TInt),
     DTypespec("E", TEnum(<<EnumDefn("A", None), EnumDefn("B", Some(VConst(1)))>>)),
     DTypespec("Ab", TFlex(TInt, None)),
     DTypespec("a", TIdent("T")),
     DTypespec("U", TUnion(Named("s", TIdent("E")), <<UnionCase(VIdent("A"), Named("p", TInt))>>, None)),
     DTypespec("W", TUnion(Named("s", TBool), <<UnionCase(VIdent("TRUE"), Void)>>, None))}

Inputs == {Malformed} \cup {Text(d) : d \in DistinctSeqs(DefnPool, MaxDefs)}

Excludes == {{}, {"A"}, {"E", "VERSION_1"}}

Headers == {Text(<<>>), Text(<<DConst("X", 1)>>), Text(<<CtxE>>), Malformed}

Options(exclude_defs, xdr_header, tagging, infile_exists, outfile) ==
    [exclude_defs |-> exclude_defs, xdr_header |-> xdr_header, tagging |-> tagging,
     infile_exists |-> infile_exists, outfile |-> outfile]

OptionsOf(entry) ==
    CASE entry = "generate" ->
            {Options(x, Text(<<>>), FALSE, TRUE, "absent") : x \in Excludes}
      [] entry = "generate_pretty" ->
            {Options(q[1], q[2], q[3], TRUE, "absent") : q \in Excludes \X Headers \X BOOLEAN}
      [] entry = "compile" ->
            {Options(q[1], Text(<<>>), FALSE, q[2], q[3]) :
                q \in Excludes \X BOOLEAN \X {"absent", "old"}}
      [] entry = "main" ->
            {Options({}, Text(<<>>), FALSE, x, "absent") : x \in BOOLEAN}

(***************************************************************************)
(* The steps of the drivers.                                               *)
(***************************************************************************)
DInit ==
    /\ d_entry \in {"generate", "generate_pretty", "compile", "main"}
    /\ d_input \in Inputs
    /\ d_opts \in OptionsOf(d_entry)
    /\ d_pc = "start"
    /\ d_xdr = SymtabNew
    /\ d_tags = EmptyMap
    /\ d_jobs = <<>>
    /\ d_res = <<>>
    /\ d_result = Unset
    /\ d_out = <<>>
    /\ d_file = d_opts.outfile
    /\ d_stderr = <<>>
    /\ d_exit = None

\* generate is entered directly, or from compile and main once they have
\* opened their files.
AtGenerate == IF d_entry = "generate" THEN d_pc = "start" ELSE d_pc = "generate"

\* generate: read and parse the input, build the symbol table, set up the
\* chain.
generate_read ==
    /\ d_entry \in {"generate", "compile", "main"}
    /\ AtGenerate
    /\ LET defns == specification(d_input)
       IN  IF IsErr(defns)
           THEN /\ d_result' = defns
                /\ d_pc' = "returned"
                /\ UNCHANGED <<d_xdr, d_jobs>>
           ELSE /\ d_xdr' = update_consts(SymtabNew, defns.v, FALSE)
                /\ d_jobs' = generate_chain(d_xdr')
                /\ d_pc' = "collect"
                /\ UNCHANGED d_result
    /\ UNCHANGED <<d_entry, d_input, d_opts, d_tags, d_res, d_out, d_file, d_stderr, d_exit>>
    /\ UNCHANGED evars

\* generate_pretty: parse the header and the input, compute the tags, build
\* the symbol table from the header and then the input, set up the chain.
generate_pretty_read ==
    /\ d_entry = "generate_pretty"
    /\ d_pc = "start"
    /\ LET hdr == IF d_opts.xdr_header = Text(<<>>) THEN Ok(<<>>)
                  ELSE specification(d_opts.xdr_header)
           defns == specification(d_input)
       IN  IF IsErr(hdr) \/ IsErr(defns)
           THEN /\ d_result' = (IF IsErr(hdr) THEN hdr ELSE defns)
                /\ d_pc' = "returned"
                /\ UNCHANGED <<d_xdr, d_jobs, d_tags>>
           ELSE /\ d_tags' = (IF d_opts.tagging
                              THEN tagged_types(defns.v, d_opts.exclude_defs)
                              ELSE EmptyMap)
                /\ d_xdr' = update_consts(update_consts(SymtabNew, hdr.v, TRUE), defns.v, FALSE)
                /\ d_jobs' = generate_pretty_chain(d_xdr', d_opts.exclude_defs)
                /\ d_pc' = "collect"
                /\ UNCHANGED d_result
    /\ UNCHANGED <<d_entry, d_input, d_opts, d_res, d_out, d_file, d_stderr, d_exit>>
    /\ UNCHANGED evars

\* collect(): the next emit call of the chain; the first failure is
\* returned at once.
collect_next ==
    /\ d_pc = "collect"
    /\ d_jobs # <<>>
    /\ LET job == Head(d_jobs)
           r == emit_job(job, d_xdr, d_tags)
       IN  IF IsOk(r)
           THEN /\ d_res' = (IF IsSome(r.v) THEN Append(d_res, Fragment(job, r.v.v)) ELSE d_res)
                /\ d_jobs' = Tail(d_jobs)
                /\ UNCHANGED <<d_pc, d_result>>
           ELSE /\ d_result' = r
                /\ d_pc' = "returned"
                /\ UNCHANGED <<d_res, d_jobs>>
    /\ UNCHANGED <<d_entry, d_input, d_opts, d_xdr, d_tags, d_out, d_file, d_stderr, d_exit>>
    /\ UNCHANGED evars

\* generate: all fragments are there; write the banner.
generate_banner ==
    /\ d_entry \in {"generate", "compile", "main"}
    /\ d_pc = "collect"
    /\ d_jobs = <<>>
    /\ d_out' = Append(d_out, Banner)
    /\ d_pc' = "write"
    /\ UNCHANGED <<d_entry, d_input, d_opts, d_xdr, d_tags, d_jobs, d_res, d_result,
                   d_file, d_stderr, d_exit>>
    /\ UNCHANGED evars

\* generate: write the next fragment, unless exclude_defs matches its line.
generate_write ==
    /\ d_pc = "write"
    /\ d_res # <<>>
    /\ d_out' = (IF exclude_definition_line(Head(d_res).tok, d_opts.exclude_defs)
                 THEN d_out ELSE Append(d_out, Head(d_res)))
    /\ d_res' = Tail(d_res)
    /\ UNCHANGED <<d_entry, d_input, d_opts, d_pc, d_xdr, d_tags, d_jobs, d_result,
                   d_file, d_stderr, d_exit>>
    /\ UNCHANGED evars

generate_return ==
    /\ d_pc = "write"
    /\ d_res = <<>>
    /\ d_result' = Ok("unit")
    /\ d_pc' = "returned"
    /\ UNCHANGED <<d_entry, d_input, d_opts, d_xdr, d_tags, d_jobs, d_res, d_out,
                   d_file, d_stderr, d_exit>>
    /\ UNCHANGED evars

\* generate_pretty: the collected stream is parsed, printed and returned.
generate_pretty_return ==
    /\ d_entry = "generate_pretty"
    /\ d_pc = "collect"
    /\ d_jobs = <<>>
    /\ d_result' = Ok(d_res)
    /\ d_pc' = "returned"
    /\ UNCHANGED <<d_entry, d_input, d_opts, d_xdr, d_tags, d_jobs, d_res, d_out,
                   d_file, d_stderr, d_exit>>
    /\ UNCHANGED evars

\* compile: File::open(&infile)?.
compile_open ==
    /\ d_entry = "compile"
    /\ d_pc = "start"
    /\ IF d_opts.infile_exists
       THEN d_pc' = "create" /\ UNCHANGED d_result
       ELSE d_pc' = "returned" /\ d_result' = Err(IOError)
    /\ UNCHANGED <<d_entry, d_input, d_opts, d_xdr, d_tags, d_jobs, d_res, d_out,
                   d_file, d_stderr, d_exit>>
    /\ UNCHANGED evars

\* compile: File::create(outdir)?, which creates the file or truncates the
\* one that is there; then generate is called.
compile_create ==
    /\ d_entry = "compile"
    /\ d_pc = "create"
    /\ \E created \in BOOLEAN :
          IF created
          THEN d_file' = "created" /\ d_pc' = "generate" /\ UNCHANGED d_result
          ELSE d_result' = Err(IOError) /\ d_pc' = "returned" /\ UNCHANGED d_file
    /\ UNCHANGED <<d_entry, d_input, d_opts, d_xdr, d_tags, d_jobs, d_res, d_out,
                   d_stderr, d_exit>>
    /\ UNCHANGED evars

\* main: open FILE, or report the failure and exit(1).
main_open ==
    /\ d_entry = "main"
    /\ d_pc = "start"
    /\ IF d_opts.infile_exists
       THEN d_pc' = "generate" /\ UNCHANGED <<d_stderr, d_exit>>
       ELSE /\ d_stderr' = Append(d_stderr, "Failed to open")
            /\ d_exit' = Some(1)
            /\ d_pc' = "exited"
    /\ UNCHANGED <<d_entry, d_input, d_opts, d_xdr, d_tags, d_jobs, d_res, d_result,
                   d_out, d_file>>
    /\ UNCHANGED evars

\* main: generate returned; an error is reported on stderr, and main
\* returns.
main_return ==
    /\ d_entry = "main"
    /\ d_pc = "returned"
    /\ d_stderr' = (IF IsErr(d_result) THEN Append(d_stderr, "Failed") ELSE d_stderr)
    /\ d_exit' = Some(0)
    /\ d_pc' = "exited"
    /\ UNCHANGED <<d_entry, d_input, d_opts, d_xdr, d_tags, d_jobs, d_res, d_result,
                   d_out, d_file>>
    /\ UNCHANGED evars

DNext ==
    \/ generate_read
    \/ generate_pretty_read
    \/ collect_next
    \/ generate_banner
    \/ generate_write
    \/ generate_return
    \/ generate_pretty_return
    \/ compile_open
    \/ compile_create
    \/ main_open
    \/ main_return

\* The emitters are at rest while a driver runs, and the reverse.
EIdle ==
    /\ e_pc = "idle"
    /\ e_defns = <<>>
    /\ e_name = ""
    /\ e_symtab = SymtabNew
    /\ e_ty = Void
    /\ e_define = Unset
    /\ e_pack = Unset
    /\ e_unpack = Unset
    /\ e_run = Unset

DIdle ==
    /\ d_entry = "none"
    /\ d_input = Malformed
    /\ d_opts = Options({}, Malformed, FALSE, FALSE, "absent")
    /\ d_pc = "idle"
    /\ d_xdr = SymtabNew
    /\ d_tags = EmptyMap
    /\ d_jobs = <<>>
    /\ d_res = <<>>
    /\ d_result = Unset
    /\ d_out = <<>>
    /\ d_file = "absent"
    /\ d_stderr = <<>>
    /\ d_exit = None

\* A call of a driver.
Init == DInit /\ EIdle

Next == DNext

Spec == Init /\ [][Next]_vars

\* One typespec through the emitters and a run of what they emitted.
InitEmit == EInit /\ DIdle

SpecEmit == InitEmit /\ [][ENext]_vars


(***************************************************************************)
(* Properties of the emitted routines.                                     *)
(***************************************************************************)
RanPack == e_pc = "ran" /\ e_run.op = "pack"
RanUnpack == e_pc = "ran" /\ e_run.op = "unpack"
Emitted == e_pc \in {"emitted", "ran"}
Defined == e_pc \in {"defined", "packed", "emitted", "ran"}

DeclResolves(d, symtab) ==
    (d.k = "Named" /\ d.ty.k = "Ident") => IsSome(typespec(symtab, d.ty.name))

\* The IR of the type holds no unresolved identifier.
Closed(ty, symtab) ==
    CASE ty.k = "Enum" ->
            \A i \in DOMAIN ty.defs :
                IsSome(ty.defs[i].val) => IsSome(value(symtab, ty.defs[i].val.v))
      [] ty.k = "Struct" -> \A i \in DOMAIN ty.decls : DeclResolves(ty.decls[i], symtab)
      [] ty.k = "Union" ->
            /\ DeclResolves(ty.sel, symtab)
            /\ \A i \in DOMAIN ty.cases :
                  /\ IsSome(value(symtab, ty.cases[i].val))
                  /\ DeclResolves(ty.cases[i].decl, symtab)
            /\ IsSome(ty.defl) => DeclResolves(ty.defl.v, symtab)
      [] OTHER -> TRUE

\* The value of the run's unpack, without the count of words read.
Unpacked == IF IsOk(e_run.unpacked) THEN Ok(e_run.unpacked.v.val) ELSE e_run.unpacked

\* The declared cases of the union that give the variant `label`.
CasesLabelled(ty, label) == {i \in DOMAIN ty.cases : as_ident(ty.cases[i].val) = label}

\* C1: for every typespec whose IR holds no unresolved identifier and every
\* value v of it, unpacking what pack wrote for v succeeds and gives v back,
\* for every variant of a union as well.
C1_RoundTrip ==
    (RanPack /\ Closed(e_ty, e_symtab) /\ e_ty.k \in {"Struct", "Union"}) =>
        (IsOk(e_run.packed) /\ Unpacked = Ok(e_run.val))

\* C2: the serializer of a union writes, for a declared case, the case's
\* discriminant as a signed 32-bit integer and then the payload if there is
\* one; for the default variant it writes nothing and fails with
\* InvalidCase(-1).
C2_PackUnion ==
    (RanPack /\ e_ty.k = "Union") =>
        LET hits == CasesLabelled(e_ty, e_run.val.variant)
        IN  IF hits = {}
            THEN e_run.packed = Err([kind |-> "InvalidCase", case |-> 0 - 1])
            ELSE LET uc == e_ty.cases[FirstIndex(hits)]
                 IN  e_run.packed =
                        Ok(<<AsI32(value(e_symtab, uc.val).v)>>
                           \o (IF uc.decl.k = "Named" THEN <<e_run.val.payload.v>> ELSE <<>>))

\* What unpacking a union from `wire` (a discriminant and a payload word)
\* gives when the discriminant read is compared with each case's resolved
\* integer (truncated to 32 bits or not) in declared order.
ExpectedUnionUnpack(ty, name, symtab, wire, truncated) ==
    LET d == wire[1]
        hits == {i \in DOMAIN ty.cases :
                    LET c == value(symtab, ty.cases[i].val).v
                    IN  d = (IF truncated THEN AsI32(c) ELSE c)}
        label == IF hits # {} THEN as_ident(ty.cases[FirstIndex(hits)].val) ELSE "default"
        decl == IF hits # {} THEN ty.cases[FirstIndex(hits)].decl
                ELSE IF IsSome(ty.defl) THEN ty.defl.v ELSE Void
    IN  IF hits = {} /\ IsNone(ty.defl)
        THEN Err([kind |-> "InvalidNamedCase", name |-> name, value |-> d])
        ELSE IF decl.k = "Void" THEN Ok([variant |-> label, payload |-> None])
        ELSE Ok([variant |-> label, payload |-> Some(wire[2])])

\* The run unpacked a union from a wire that holds a discriminant and a
\* payload word.
RanUnpackUnion == RanUnpack /\ e_ty.k = "Union" /\ Len(e_run.wire) >= 2

\* C3 as stated: the deserializer of a union compares the signed 32-bit
\* discriminant with each case's resolved integer in declared order, yields
\* the first matching case's variant (with its payload), else the default
\* variant, else fails with InvalidNamedCase(type_name, discriminant).
C3_UnpackUnionResolved ==
    RanUnpackUnion =>
        Unpacked = ExpectedUnionUnpack(e_ty, quote_ident(e_name), e_symtab, e_run.wire, FALSE)

\* C3, amended: the comparison is with each case's resolved integer
\* truncated to a signed 32-bit integer.
C3_UnpackUnion ==
    RanUnpackUnion =>
        Unpacked = ExpectedUnionUnpack(e_ty, quote_ident(e_name), e_symtab, e_run.wire, TRUE)

\* A case whose integer does not fit 32 bits was matched by its truncation.
C3_Witness ==
    /\ RanUnpackUnion
    /\ e_run.wire[1] = AsI32(BigUnsigned)
    /\ IsOk(e_run.unpacked)
    /\ e_run.unpacked.v.val.variant = as_ident(VConst(BigUnsigned))

\* The integer each member of an enum is declared with: its explicit value
\* (a literal, or the constant it names), else the preceding member's
\* value + 1, the first member's being 0.
RECURSIVE DeclaredValue(_, _, _)
DeclaredValue(defs, i, symtab) ==
    IF IsSome(defs[i].val) THEN value(symtab, defs[i].val.v).v
    ELSE IF i = 1 THEN 0
    ELSE DeclaredValue(defs, i - 1, symtab) + 1

\* An enum as the XDR language admits it: the explicit values resolve, and
\* the members' integers are distinct 32-bit integers.
ProperEnum(ty, symtab) ==
    /\ Closed(ty, symtab)
    /\ \A i \in DOMAIN ty.defs : DeclaredValue(ty.defs, i, symtab) \in I32
    /\ \A i, j \in DOMAIN ty.defs :
          i # j => /\ DeclaredValue(ty.defs, i, symtab) # DeclaredValue(ty.defs, j, symtab)
                   /\ ty.defs[i].name # ty.defs[j].name

\* C4: the deserializer of an enum reads a signed 32-bit integer w; if w is
\* the integer value of a declared member it yields that member's variant,
\* and for every other w it fails with InvalidNamedEnum(type_name, w).
C4_UnpackEnum ==
    (RanUnpack /\ e_ty.k = "Enum" /\ e_run.wire # <<>> /\ ProperEnum(e_ty, e_symtab)) =>
        LET w == e_run.wire[1]
            hits == {i \in DOMAIN e_ty.defs : DeclaredValue(e_ty.defs, i, e_symtab) = w}
        IN  IF hits # {}
            THEN Unpacked = Ok([variant |-> quote_ident(e_ty.defs[FirstIndex(hits)].name)])
            ELSE Unpacked = Err([kind |-> "InvalidNamedEnum", name |-> quote_ident(e_name),
                                 value |-> w])

\* The compatibility of a case value with a selector, as the claim words it.
Compatible(selector, case, symtab) ==
    /\ selector.k = "Named"
    /\ \/ selector.ty.k = "Bool" /\ case.k = "Ident" /\ case.id \in {"TRUE", "FALSE"}
       \/ selector.ty.k \in {"Int", "Hyper"} /\ case.k = "Const"
       \/ selector.ty.k \in {"UInt", "UHyper"} /\ case.k = "Const" /\ case.v >= 0
       \/ /\ selector.ty.k = "Ident"
          /\ case.k = "Ident"
          /\ case.id \in DOMAIN symtab.consts
          /\ symtab.consts[case.id].scope = Some(selector.ty.name)

\* C5: Typespec::define on a union returns an error if some case value is
\* incompatible with the selector, and passes the check otherwise; the
\* error names the first incompatible case.
C5_DefineCompat ==
    (Defined /\ e_ty.k = "Union") =>
        LET bad == {i \in DOMAIN e_ty.cases :
                       ~Compatible(e_ty.sel, e_ty.cases[i].val, e_symtab)}
        IN  IF bad # {}
            THEN e_define = Err(IncompatSelector(e_ty.sel, e_ty.cases[FirstIndex(bad)].val))
            ELSE IsOk(e_define)

\* define refused a union for a negative case of an unsigned selector.
C5_Witness ==
    /\ Defined
    /\ e_ty.k = "Union"
    /\ e_ty.sel.k = "Named"
    /\ e_ty.sel.ty.k \in {"UInt", "UHyper"}
    /\ \E i \in DOMAIN e_ty.cases : e_ty.cases[i].val = VConst(0 - 1)
    /\ IsErr(e_define)
    /\ e_define.e.kind = "IncompatSelector"

\* C6: Typespec::unpack on a union returns the DiscriminantValueUnknown
\* error, and no deserializer, if some case value is an identifier with no
\* constant in the symbol table; otherwise every case value resolves and
\* that error is not returned.
C6_UnpackUnknown ==
    (Emitted /\ e_ty.k = "Union") =>
        LET unknown == {i \in DOMAIN e_ty.cases :
                           /\ e_ty.cases[i].val.k = "Ident"
                           /\ e_ty.cases[i].val.id \notin DOMAIN e_symtab.consts}
        IN  IF unknown # {}
            THEN e_unpack = Err(DiscriminantValueUnknown(e_ty.cases[FirstIndex(unknown)].val))
            ELSE ~(IsErr(e_unpack) /\ e_unpack.e.kind = "DiscriminantValueUnknown")

\* unpack refused a union whose second case names an unknown identifier.
C6_Witness ==
    /\ Emitted
    /\ e_ty.k = "Union"
    /\ Len(e_ty.cases) = 2
    /\ e_ty.cases[1].val.k = "Const"
    /\ e_unpack = Err(DiscriminantValueUnknown(VIdent("Z")))

\* The emit calls generate makes for the name n.
JobsNamed(symtab, n) == SelectSeq(generate_chain(symtab), LAMBDA job : job.name = n)

\* C11: for a typespec over an identifier or a primitive, pack and unpack
\* return Ok(None) and define emits a type alias; for a name bound as a
\* constant only, generate makes one emit call, which gives the constant
\* binding, and no pack or unpack call.
C11_AliasNoImpl ==
    Emitted =>
        /\ (e_ty.k = "Ident" \/ e_ty.k \in PrimKinds) =>
              /\ e_pack = Ok(None)
              /\ e_unpack = Ok(None)
              /\ IsOk(e_define)
              /\ e_define.v.item = "type"
        /\ \A n \in DOMAIN e_symtab.consts :
              (IsNone(e_symtab.consts[n].scope) /\ n \notin DOMAIN e_symtab.typespecs) =>
                  /\ JobsNamed(e_symtab, n) = <<Job("const", n)>>
                  /\ emit_job(Job("const", n), e_symtab, EmptyMap) =
                        Ok(Some([item |-> "const", name |-> quote_ident(n),
                                 val |-> e_symtab.consts[n].val]))

\* A typespec over bool went through define, pack and unpack, next to a
\* constant.
C11_Witness ==
    /\ Emitted
    /\ e_ty = TBool
    /\ e_pack = Ok(None)
    /\ e_unpack = Ok(None)
    /\ e_define.v.item = "type"
    /\ "X" \in DOMAIN e_symtab.consts

\* The runtime error constructors the emitted routine calls.
CtorsCalled(r) ==
    IF ~HasImpl(r) THEN {}
    ELSE LET body == r.v.v.body
         IN  CASE body.b = "match" ->
                     {body.arms[i].fail.v.ctor :
                         i \in {j \in DOMAIN body.arms : IsSome(body.arms[j].fail)}}
               [] body.b = "enum_match" -> {body.fail.ctor}
               [] OTHER -> {}

\* C14: every runtime error constructor the emitted pack and unpack routines
\* call is one of invalid_case, invalid_named_case, invalid_named_enum and
\* invalid_len.
C14_RuntimeCtors ==
    Emitted =>
        CtorsCalled(e_pack) \cup CtorsCalled(e_unpack)
            \subseteq {"invalid_case", "invalid_named_case", "invalid_named_enum", "invalid_len"}

\* The integer member i of an enum resolves to, if any: its explicit value
\* through the symbol table, else the value of the nearest preceding member
\* that resolves + 1, or 0 when there is none.
RECURSIVE OwnValue(_, _, _)
OwnValue(defs, i, symtab) ==
    IF i = 0 THEN Some(0 - 1)
    ELSE IF IsSome(defs[i].val) THEN value(symtab, defs[i].val.v)
    ELSE LET before == {j \in 1 .. (i - 1) : IsSome(OwnValue(defs, j, symtab))}
             last == IF before = {} THEN 0 ELSE CHOOSE j \in before : \A k \in before : k <= j
         IN  Some(OwnValue(defs, last, symtab).v + 1)

\* The members of an enum that resolve, each with its own value, in order.
OwnMembers(defs, symtab) ==
    filter_some([i \in DOMAIN defs |->
        IF IsSome(OwnValue(defs, i, symtab))
        THEN Some([field |-> quote_ident(defs[i].name), val |-> OwnValue(defs, i, symtab).v])
        ELSE None])

\* C15: define on an enum emits exactly the members that resolve to an
\* integer through the symbol table, each with its own resolved value (the
\* explicit one, or the preceding member's + 1).
C15_DefineEnumMembers ==
    (Defined /\ e_ty.k = "Enum") =>
        /\ IsOk(e_define)
        /\ e_define.v.members = OwnMembers(e_ty.defs, e_symtab)

\* How deep the properties follow identifier references.
FollowDepth == 3

\* The types one step inside ty: the element, the types of the fields or of
\* the payloads and, for an identifier, the type it resolves to.  With
\* precomputed FALSE an identifier that carries a derive set of its own is
\* not followed.
Children(ty, symtab, precomputed) ==
    LET DeclTypes(decls) == {decls[i].ty : i \in {j \in DOMAIN decls : decls[j].k = "Named"}}
    IN  CASE ty.k \in {"Array", "Flex", "Option"} -> {ty.ty}
          [] ty.k = "Struct" -> DeclTypes(ty.decls)
          [] ty.k = "Union" ->
                DeclTypes([i \in DOMAIN ty.cases |-> ty.cases[i].decl])
                \cup (IF IsSome(ty.defl) THEN DeclTypes(<<ty.defl.v>>) ELSE {})
          [] ty.k = "Ident" ->
                IF IsNone(typespec(symtab, ty.name)) \/ (IsSome(ty.derives) /\ ~precomputed)
                THEN {}
                ELSE {typespec(symtab, ty.name).v}
          [] OTHER -> {}

\* Every type reached from the types of S, those included.
RECURSIVE Closure(_, _, _)
Closure(S, symtab, precomputed) ==
    LET next == S \cup UNION {Children(x, symtab, precomputed) : x \in S}
    IN  IF next = S THEN S ELSE Closure(next, symtab, precomputed)

\* No identifier at any depth of ty carries a derive set of its own.
NoPrecomputed(ty, symtab) ==
    \A x \in Closure({ty}, symtab, TRUE) : x.k = "Ident" => IsNone(x.derives)

\* The claim's "plain" type: no Flex, String, Opaque or Option and no fixed
\* array longer than 32, at any depth, identifier references followed.  With
\* bytes, String and Opaque are let through as the element of a fixed array.
RECURSIVE Plain(_, _, _, _)
Plain(ty, symtab, bytes, fuel) ==
    LET PlainDecl(d) == d.k = "Void" \/ Plain(d.ty, symtab, bytes, fuel)
    IN  CASE ty.k \in {"Flex", "String", "Opaque", "Option"} -> FALSE
          [] ty.k = "Array" ->
                /\ ~(IsSome(value(symtab, ty.len)) /\ value(symtab, ty.len).v > 32)
                /\ \/ bytes /\ ty.ty.k \in {"String", "Opaque"}
                   \/ Plain(ty.ty, symtab, bytes, fuel)
          [] ty.k = "Struct" -> \A i \in DOMAIN ty.decls : PlainDecl(ty.decls[i])
          [] ty.k = "Union" ->
                /\ \A i \in DOMAIN ty.cases : PlainDecl(ty.cases[i].decl)
                /\ IsSome(ty.defl) => PlainDecl(ty.defl.v)
          [] ty.k = "Ident" ->
                LET t == typespec(symtab, ty.name)
                IN  IF IsNone(t) \/ fuel = 0 THEN TRUE ELSE Plain(t.v, symtab, bytes, fuel - 1)
          [] OTHER -> TRUE

\* define emitted a declaration that carries a derive set.
Derived == Defined /\ e_name = "D" /\ IsOk(e_define) /\ e_define.v.item \in {"struct", "union", "newtype"}

\* C16 as stated: if the derive set of a type holds COPY, the type holds no
\* Flex, String, Opaque or Option and no fixed array longer than 32 at any
\* depth.
C16_CopyPlain ==
    (Derived /\ "COPY" \in e_define.v.derive) => Plain(e_ty, e_symtab, FALSE, FollowDepth)

\* C16, amended: for a type none of whose identifiers carries a derive set
\* of its own; String and Opaque may occur as the element type of a fixed
\* array of at most 32 elements, which is a byte array.
C16_CopyPlainBytes ==
    (Derived /\ NoPrecomputed(e_ty, e_symtab) /\ "COPY" \in e_define.v.derive)
        => Plain(e_ty, e_symtab, TRUE, FollowDepth)

\* A struct with a 32-byte opaque array was given COPY.
C16_Witness ==
    /\ Derived
    /\ e_ty = TStruct(<<Named("a", TArray(TOpaque, VConst(32))), Named("b", TInt)>>)
    /\ "COPY" \in e_define.v.derive

\* C20: the derive set of Array(inner, len) is that of inner when len
\* resolves to at most 32 and empty when len exceeds 32; over Opaque or
\* String it is the full set for len at most 32.
C20_DeriveArray ==
    (Derived /\ e_ty.k = "Array" /\ IsSome(value(e_symtab, e_ty.len))) =>
        e_define.v.derive =
            (IF value(e_symtab, e_ty.len).v > 32 THEN {}
             ELSE IF e_ty.ty.k \in {"Opaque", "String"} THEN {"COPY", "CLONE", "DEBUG", "EQ", "PARTIALEQ"}
             ELSE derive_of(e_ty.ty, e_symtab))

\* An array of 33 floats got the empty set, where float alone has four
\* derives.
C20_Witness ==
    /\ Derived
    /\ e_ty = TArray(TFloat, VConst(33))
    /\ e_define.v.derive = {}
    /\ derive_of(TFloat, e_symtab) = {"PARTIALEQ", "COPY", "CLONE", "DEBUG"}

\* The derive set of one declaration taken alone: the full set for void.
DeclDerives(d, symtab) ==
    IF d.k = "Void" THEN {"COPY", "CLONE", "DEBUG", "EQ", "PARTIALEQ"} ELSE derive_of(d.ty, symtab)

\* The derives every one of the declarations has.
CommonDerives(decls, symtab) ==
    {x \in {"COPY", "CLONE", "DEBUG", "EQ", "PARTIALEQ"} :
        \A i \in DOMAIN decls : x \in DeclDerives(decls[i], symtab)}

\* C21: the derive set of a struct is the intersection of the derive sets of
\* its fields, that of a union the intersection over its case declarations
\* and its default declaration; void contributes the full set.
C21_DeriveCompound ==
    (Derived /\ e_ty.k \in {"Struct", "Union"}) =>
        e_define.v.derive =
            (IF e_ty.k = "Struct" THEN CommonDerives(e_ty.decls, e_symtab)
             ELSE CommonDerives([i \in DOMAIN e_ty.cases |-> e_ty.cases[i].decl], e_symtab)
                    \cap (IF IsSome(e_ty.defl) THEN DeclDerives(e_ty.defl.v, e_symtab)
                          ELSE {"COPY", "CLONE", "DEBUG", "EQ", "PARTIALEQ"}))

\* A union of a variable-length int array, void and a float default derives
\* what all three have.
C21_Witness ==
    /\ Derived
    /\ e_ty = TUnion(Named("s", TInt),
                     <<UnionCase(VConst(0), Named("p", TIdent("T"))), UnionCase(VConst(1), Void)>>,
                     Some(Named("rest", TFloat)))
    /\ typespec(e_symtab, "T") = Some(TFlex(TInt, None))
    /\ e_define.v.derive = {"CLONE", "DEBUG", "PARTIALEQ"}

\* ty is reached from inside itself.
ReachesItself(ty, symtab, precomputed) ==
    ty \in Closure(Children(ty, symtab, precomputed), symtab, precomputed)

\* C22 as stated: derivable returns, and returns the empty set for every
\* type that reaches itself through identifier references.
C22_CyclicEmpty ==
    Derived =>
        /\ e_define.v.derive \subseteq {"COPY", "CLONE", "DEBUG", "EQ", "PARTIALEQ"}
        /\ ReachesItself(e_ty, e_symtab, TRUE) => e_define.v.derive = {}

\* C22, amended: the references of the cycle are identifiers that carry no
\* derive set of their own.
C22_CyclicEmptyFollowed ==
    Derived =>
        /\ e_define.v.derive \subseteq {"COPY", "CLONE", "DEBUG", "EQ", "PARTIALEQ"}
        /\ ReachesItself(e_ty, e_symtab, FALSE) => e_define.v.derive = {}

\* A struct D holding a T, where T is a struct holding an optional D, got the
\* empty set although each of its fields alone is derivable elsewhere.
C22_Witness ==
    /\ Derived
    /\ e_ty = TStruct(<<Named("a", TIdent("T")), Named("b", TInt)>>)
    /\ typespec(e_symtab, "T") = Some(TStruct(<<Named("n", TOption(TIdent("D")))>>))
    /\ ReachesItself(e_ty, e_symtab, FALSE)
    /\ e_define.v.derive = {}

\* define was called.
DefineCalled == e_pc \notin {"new", "built", "idle"}

\* The claim's boxed types: a struct, union or enum, an identifier that
\* resolves to a boxed type, or an identifier that does not resolve.
RECURSIVE BoxedAsClaimed(_, _, _)
BoxedAsClaimed(ty, symtab, fuel) ==
    \/ ty.k \in {"Struct", "Union", "Enum"}
    \/ /\ ty.k = "Ident"
       /\ \/ IsNone(typespec(symtab, ty.name))
          \/ fuel > 0 /\ BoxedAsClaimed(typespec(symtab, ty.name).v, symtab, fuel - 1)

\* C23: define renders an optional field of a struct as an optional of a
\* heap indirection exactly when the type under the optional is boxed as the
\* claim defines it, and as a plain optional otherwise.
C23_OptionBoxed ==
    (DefineCalled /\ e_ty.k = "Struct" /\ \A i \in DOMAIN e_ty.decls : e_ty.decls[i].k = "Named") =>
        \A i \in DOMAIN e_ty.decls :
            (e_ty.decls[i].ty.k = "Option" /\ ~IsErr(e_define)) =>
                /\ IsOk(e_define)
                /\ e_define.v.fields[i].tok.t = "Option"
                /\ (e_define.v.fields[i].tok.of.t = "Box")
                      <=> BoxedAsClaimed(e_ty.decls[i].ty.ty, e_symtab, FollowDepth)

\* The label the claim gives a case value.
LabelAsClaimed(val) ==
    IF val.k = "Ident" THEN (IF val.id \in KEYWORDS THEN val.id \o "_" ELSE val.id)
    ELSE IF val.v >= 0 THEN "Const" \o ToString(val.v)
    ELSE "Const_" \o ToString(0 - val.v)

\* C24: wherever define and pack render the cases of a union, every case
\* gets its label: "Const" and n for a literal n >= 0, "Const_" and |n| for a
\* literal n < 0 whatever the i64 n, the name itself for an identifier, with
\* an underscore appended iff it is a reserved word.
C24_ValueLabels ==
    e_ty.k = "Union" =>
        /\ (DefineCalled /\ ~IsErr(e_define) /\ e_define.k # "StackOverflow") =>
              /\ IsOk(e_define)
              /\ \A i \in DOMAIN e_ty.cases :
                    e_define.v.variants[i].label = LabelAsClaimed(e_ty.cases[i].val)
        /\ e_pack # Unset =>
              /\ HasImpl(e_pack)
              /\ \A i \in DOMAIN e_ty.cases :
                    e_pack.v.v.body.arms[i].label = LabelAsClaimed(e_ty.cases[i].val)

\* C26: for every union on which define succeeds, every case having passed
\* the selector compatibility check, unpack generation succeeds as well.
C26_DefineThenUnpack ==
    (Emitted /\ e_ty.k = "Union" /\ IsOk(e_define)) => HasImpl(e_unpack)

\* C27: pack and unpack agree on whether a routine is generated: pack
\* returns an implementation exactly when unpack returns one.
C27_PackUnpackAgree ==
    Emitted => (HasImpl(e_pack) <=> HasImpl(e_unpack))

\* C29: the members define emits in an enum declaration are the members
\* unpack emits a match arm for, and every arm yields a variant of that enum.
C29_EnumArmsDeclared ==
    (Emitted /\ e_ty.k = "Enum" /\ IsOk(e_define) /\ HasImpl(e_unpack)) =>
        LET members == e_define.v.members
            arms == e_unpack.v.v.body.arms
        IN  /\ {members[i].field : i \in DOMAIN members} = {arms[i].guard.name : i \in DOMAIN arms}
            /\ \A i \in DOMAIN arms :
                  arms[i].guard.t = "path" /\ arms[i].guard.scope = quote_ident(e_name)

\* C28: is_prim and is_boxed return for every type name of every symbol
\* table built, and so does the call of define that asks them.
C28_PredicatesReturn ==
    /\ e_define # [k |-> "StackOverflow"]
    /\ e_pc \notin {"new", "idle"} =>
          \A n \in DOMAIN e_symtab.typespecs \cup DOMAIN e_symtab.typesyns :
              /\ IsSome(is_prim_nested(TIdent(n), e_symtab, ChainLimit(e_symtab)))
              /\ IsSome(is_boxed_nested(TIdent(n), e_symtab, ChainLimit(e_symtab)))

\* The symbol table of the definitions is built.
Built == e_pc \notin {"new", "idle"}

\* The scopes under which the definitions bind the constant name n, in
\* textual order: None for a top-level constant, the enum's name for a
\* member.
RECURSIVE BindersOf(_, _)
BindersOf(defns, n) ==
    IF defns = <<>> THEN <<>>
    ELSE LET d == Head(defns)
             here == IF d.k = "Const" /\ d.name = n THEN <<None>>
                     ELSE IF d.k = "Typespec" /\ d.ty.k = "Enum"
                     THEN [i \in 1 .. Cardinality({j \in DOMAIN d.ty.defs : d.ty.defs[j].name = n})
                             |-> Some(d.name)]
                     ELSE <<>>
         IN  here \o BindersOf(Tail(defns), n)

\* C17: in the symbol table built from the definitions no name is both a
\* typespec and a typesyn, and every constant name is bound by one
\* definition, a later definition of the name not replacing the first.
C17_UniqueBindings ==
    Built =>
        /\ DOMAIN e_symtab.typespecs \cap DOMAIN e_symtab.typesyns = {}
        /\ \A n \in DOMAIN e_symtab.consts :
              LET binders == BindersOf(e_defns, n)
              IN  binders # <<>> /\ e_symtab.consts[n].scope = binders[1]

\* C18: in the symbol table built from the definitions every member of every
\* enum that resolves to an integer (its explicit value through the table,
\* or the preceding member's + 1, the first being 0) is a constant of that
\* value scoped by the enum's name.
C18_EnumMembersRegistered ==
    Built =>
        \A k \in DOMAIN e_defns :
            (e_defns[k].k = "Typespec" /\ e_defns[k].ty.k = "Enum") =>
                LET defs == e_defns[k].ty.defs
                IN  \A i \in DOMAIN defs :
                        LET own == OwnValue(defs, i, e_symtab)
                            c == getconst(e_symtab, defs[i].name)
                        IN  IsSome(own) =>
                                /\ IsSome(c)
                                /\ c.v.val = own.v
                                /\ c.v.scope = Some(e_defns[k].name)

\* C19: building the symbol table rejects an enum two of whose members
\* resolve to the same integer, so no built table holds two constants of one
\* enum scope with the same value.
C19_DuplicateValuesRejected ==
    Built =>
        \A n, m \in DOMAIN e_symtab.consts :
            (/\ n # m
             /\ IsSome(e_symtab.consts[n].scope)
             /\ e_symtab.consts[n].scope = e_symtab.consts[m].scope)
                => e_symtab.consts[n].val # e_symtab.consts[m].val

(***************************************************************************)
(* Properties of the drivers.                                              *)
(***************************************************************************)
\* The items emitted so far, in order: the fragments written by generate
\* (the banner aside), or the ones generate_pretty returned.
Emission ==
    IF d_entry = "generate_pretty"
    THEN (IF d_pc = "returned" /\ IsOk(d_result) THEN d_result.v ELSE <<>>)
    ELSE SelectSeq(d_out, LAMBDA it : it.sec # "banner")

SectionRank(sec) ==
    CASE sec = "const" -> 1
      [] sec \in {"define", "tag"} -> 2
      [] sec = "typesyn" -> 3
      [] sec = "pack" -> 4
      [] sec = "unpack" -> 5

\* C7: the emitted items come in the section order constants, type
\* definitions (each followed at once by the tag attached to its name, if
\* any), type synonyms, pack implementations, unpack implementations, and in
\* ascending order of name within a section.
C7_SectionOrder ==
    LET out == Emission
    IN  /\ \A i, j \in DOMAIN out :
              i < j => /\ SectionRank(out[i].sec) <= SectionRank(out[j].sec)
                       /\ out[i].sec = out[j].sec => StrLess(out[i].name, out[j].name)
        /\ \A i \in DOMAIN out :
              out[i].sec = "tag" =>
                  i > 1 /\ out[i - 1].sec = "define" /\ out[i - 1].name = out[i].name
        /\ \A i \in DOMAIN out :
              (d_entry = "generate_pretty" /\ out[i].sec = "define" /\ out[i].name \in DOMAIN d_tags) =>
                  i < Len(out) /\ out[i + 1] = Fragment(Job("tag", out[i].name), d_tags[out[i].name])

\* generate_pretty returned two tagged type definitions after a constant.
C7_Witness ==
    /\ d_entry = "generate_pretty"
    /\ d_pc = "returned"
    /\ IsOk(d_result)
    /\ Len(d_result.v) >= 7
    /\ d_result.v[1].sec = "const"
    /\ d_result.v[2].sec = "define"
    /\ d_result.v[3].sec = "tag"
    /\ d_result.v[4].sec = "define"
    /\ d_result.v[5].sec = "tag"
    /\ d_result.v[6].sec = "pack"

Reorderings(defns) ==
    {q \in DistinctSeqs(Range(defns), Len(defns)) : Len(q) = Len(defns)}

\* The outcome of the whole chain: its fragments, or its first failure.
RECURSIVE collect_chain(_, _, _, _)
collect_chain(jobs, xdr, tags, acc) ==
    IF jobs = <<>> THEN Ok(acc)
    ELSE LET r == emit_job(Head(jobs), xdr, tags)
         IN  IF ~IsOk(r) THEN r
             ELSE collect_chain(Tail(jobs), xdr, tags,
                                IF IsSome(r.v) THEN Append(acc, Fragment(Head(jobs), r.v.v)) ELSE acc)

SectionNames(items) == [i \in DOMAIN items |-> <<items[i].sec, items[i].name>>]

\* The (section, name) items generate emits for a list of definitions.
EmittedBy(defns, exclude_defs) ==
    LET xdr == update_consts(SymtabNew, defns, FALSE)
        r == collect_chain(generate_chain(xdr), xdr, EmptyMap, <<>>)
    IN  IF IsOk(r)
        THEN SectionNames(SelectSeq(r.v, LAMBDA it : ~exclude_definition_line(it.tok, exclude_defs)))
        ELSE <<>>

\* C8: the same definitions in any other textual order give the same
\* sequence of emitted (section, name) items.
C8_OrderIndependent ==
    (d_entry = "generate" /\ d_pc = "returned" /\ d_input.k = "Text") =>
        \A q \in Reorderings(d_input.defns) :
            EmittedBy(q, d_opts.exclude_defs) = SectionNames(Emission)

\* The errors of define, pack and unpack calls.
EmitErrors == {"IncompatSelector", "UnnamedType", "DiscriminantValueUnknown", "UnimplementedType"}

EmitFailed == IsErr(d_result) /\ d_result.e.kind \in EmitErrors

\* The chain the driver of this call goes through.
WholeChain ==
    IF d_entry = "generate_pretty" THEN generate_pretty_chain(d_xdr, d_opts.exclude_defs)
    ELSE generate_chain(d_xdr)

\* C9: when a define, pack or unpack call fails the driver returns the first
\* error in emission order and nothing has been written: generate writes
\* nothing before every fragment is there, and compile leaves the destination
\* file as it was.
C9_NoPartialOutput ==
    /\ d_pc \in {"start", "create", "generate", "collect"} => d_out = <<>>
    /\ EmitFailed =>
          /\ d_result = collect_chain(WholeChain, d_xdr, d_tags, <<>>)
          /\ d_out = <<>>
          /\ d_file = d_opts.outfile

\* C10: the command line exits with 0 when generation succeeds and with 1 on
\* every error (the input file does not open, generate returns an error),
\* having written a line to standard error.
C10_ExitCode ==
    (d_entry = "main" /\ d_pc = "exited") =>
        IF ~d_opts.infile_exists \/ IsErr(d_result)
        THEN d_exit = Some(1) /\ d_stderr # <<>>
        ELSE d_exit = Some(0) /\ d_stderr = <<>>

\* The names a list of definitions binds: its constants, types, synonyms and
\* the members of its enums.
BoundNames(defns) ==
    {defns[i].name : i \in DOMAIN defns}
    \cup UNION {IF defns[i].k = "Typespec" /\ defns[i].ty.k = "Enum"
                THEN {defns[i].ty.defs[j].name : j \in DOMAIN defns[i].ty.defs}
                ELSE {} : i \in DOMAIN defns}

\* generate_pretty has parsed both texts and built the symbol table.
PrettyBuilt ==
    /\ d_entry = "generate_pretty"
    /\ d_pc \in {"collect", "returned"}
    /\ IsOk(specification(d_input))
    /\ d_opts.xdr_header = Text(<<>>) \/ IsOk(specification(d_opts.xdr_header))

HeaderDefns == IF d_opts.xdr_header.k = "Text" THEN d_opts.xdr_header.defns ELSE <<>>

GenerateDone == d_entry = "generate" /\ d_pc = "returned" /\ IsOk(d_result)

\* C13: generate writes an emitted item exactly when the name it belongs to
\* is not in exclude_defs.
C13_ExcludeExact ==
    GenerateDone =>
        LET all == collect_chain(generate_chain(d_xdr), d_xdr, EmptyMap, <<>>).v
        IN  Emission = SelectSeq(all, LAMBDA it : it.name \notin d_opts.exclude_defs)

\* generate_pretty, called with tagging options, has scanned the main input.
Tagged == PrettyBuilt /\ d_opts.tagging

\* The nearest constant before position i of the main input that passes
\* const_filter and is not in exclude_defs, if there is one.
NearestTag(defns, i, exclude_defs) ==
    LET passing == {j \in 1 .. (i - 1) :
                       /\ defns[j].k = "Const"
                       /\ const_filter(defns[j].name)
                       /\ defns[j].name \notin exclude_defs}
    IN  IF passing = {} THEN None
        ELSE Some(defns[CHOOSE j \in passing : \A k \in passing : k <= j].name)

\* The typespec at position i is one the claim attaches a tag to.
TagDue(defns, i, exclude_defs) ==
    /\ defns[i].k = "Typespec"
    /\ defns[i].name \notin exclude_defs
    /\ IsSome(NearestTag(defns, i, exclude_defs))
    /\ ty_filter(defns[i].name, NearestTag(defns, i, exclude_defs).v)

\* C25: tagged_types attaches to a typespec of the main input the tag built
\* from the nearest preceding constant that passes const_filter and is not
\* excluded, provided the typespec is not excluded and passes ty_filter with
\* that constant; every other definition gets no tag; and generate_pretty
\* emits the tag directly after the definition of its typespec.
C25_TaggedTypes ==
    Tagged =>
        LET defns == d_input.defns
            excl == d_opts.exclude_defs
        IN  /\ \A i \in DOMAIN defns :
                  IF TagDue(defns, i, excl)
                  THEN /\ defns[i].name \in DOMAIN d_tags
                       /\ d_tags[defns[i].name] =
                             TagItem(quote_ident(defns[i].name),
                                     quote_ident(NearestTag(defns, i, excl).v))
                  ELSE defns[i].name \notin DOMAIN d_tags
            /\ (d_pc = "returned" /\ IsOk(d_result)) =>
                  /\ \A i \in DOMAIN defns :
                        TagDue(defns, i, excl) =>
                            \E k \in 1 .. (Len(d_result.v) - 1) :
                                /\ d_result.v[k].sec = "define"
                                /\ d_result.v[k].name = defns[i].name
                                /\ d_result.v[k + 1] =
                                      Fragment(Job("tag", defns[i].name), d_tags[defns[i].name])
                  /\ \A k \in DOMAIN d_result.v :
                        d_result.v[k].sec = "tag" =>
                            \E i \in DOMAIN defns :
                                TagDue(defns, i, excl) /\ defns[i].name = d_result.v[k].name

\* generate_pretty returned E tagged with VERSION_2, the nearer of the two
\* constants before it.
C25_Witness ==
    /\ Tagged
    /\ d_pc = "returned"
    /\ IsOk(d_result)
    /\ Len(d_input.defns) = 3
    /\ d_input.defns[1] = DConst("VERSION_1", 1)
    /\ d_input.defns[2] = DConst("VERSION_2", 2)
    /\ d_input.defns[3].k = "Typespec" /\ d_input.defns[3].name = "E"
    /\ d_opts.exclude_defs = {}
    /\ d_tags = [E |-> TagItem("E", "VERSION_2")]
    /\ \E k \in 1 .. (Len(d_result.v) - 1) :
          /\ d_result.v[k].sec = "define" /\ d_result.v[k].name = "E"
          /\ d_result.v[k + 1].sec = "tag" /\ d_result.v[k + 1].tok = TagItem("E", "VERSION_2")
====
